---- MODULE Spec2Model ----
(***************************************************************************)
(* A model of the temporal relevance graph of the context continuity       *)
(* engine (src/context_engine/graph/temporal_graph.py).                    *)
(*                                                                         *)
(* The graph is a networkx DiGraph.  Its state is modelled by              *)
(*   nodes  : node id -> attribute dict          (DiGraph._node)           *)
(*   order  : the node ids in dict insertion order (iteration order)       *)
(*   adj    : node id -> successors in insertion order (DiGraph._succ)     *)
(*   edges  : <<u, v>> -> attribute dict          (the edge data dicts)    *)
(* A Python dict is a function whose DOMAIN is its key set.  A float is    *)
(* modelled by the exact rational <<n, d>> in lowest terms (d > 0); a      *)
(* datetime by an integer instant.                                         *)
(***************************************************************************)
EXTENDS Integers, Sequences, FiniteSets, TLC

VARIABLES
    nodes, order, adj, edges,   \* the DiGraph
    max_nodes, decay_factor,    \* the TemporalGraph's configuration
    now,                        \* the clock datetime.now() reads
    disk,                       \* the file at persist_path: <<>> or <<file>>
    daemon,                     \* the ContextEngine and its threads
    steps,                      \* the number of calls made so far
    last,                       \* the call made last (history)
    pre                         \* the graph value before that call (history)

vars == <<nodes, order, adj, edges, max_nodes, decay_factor, now, disk, daemon, steps, last, pre>>

----------------------------------------------------------------------------
(* Bounds of the model *)

\* number of calls explored in one behaviour of Spec
MaxSteps == 3
\* largest instant of the clock
MaxTime == 1

----------------------------------------------------------------------------
(* Floats as exact rationals *)

RECURSIVE GCD(_, _)
GCD(a, b) == IF b = 0 THEN a ELSE GCD(b, a % b)

Abs(x) == IF x < 0 THEN -x ELSE x

\* the rational n/d (d # 0) in lowest terms with a positive denominator
Rat(n, d) ==
    LET g == GCD(Abs(n), Abs(d))
        s == IF d < 0 THEN -1 ELSE 1
    IN  <<(s * n) \div g, (s * d) \div g>>

RAdd(x, y) == Rat(x[1] * y[2] + y[1] * x[2], x[2] * y[2])
RMul(x, y) == Rat(x[1] * y[1], x[2] * y[2])
RLess(x, y) == x[1] * y[2] < y[1] * x[2]
RLeq(x, y) == x[1] * y[2] <= y[1] * x[2]
\* Python's min(x, y): the first argument unless the second is smaller
RMin(x, y) == IF RLess(y, x) THEN y ELSE x

Zero == <<0, 1>>
One == <<1, 1>>
\* the literal 0.1 of decay_edges
WeakEdge == <<1, 10>>

----------------------------------------------------------------------------
(* Python dicts *)

EmptyDict == [k \in {} |-> 0]

\* d.update(e): e's items win, d's other items stay
DictUpdate(d, e) ==
    [k \in (DOMAIN d) \cup (DOMAIN e) |-> IF k \in DOMAIN e THEN e[k] ELSE d[k]]

\* d without the keys in ks
DictWithout(d, ks) == [k \in (DOMAIN d) \ ks |-> d[k]]

\* the elements of a sequence
Range(s) == {s[i] : i \in DOMAIN s}

\* the sequence s without the elements in xs, order kept
SeqWithout(s, xs) == SelectSeq(s, LAMBDA x : x \notin xs)

----------------------------------------------------------------------------
(* networkx DiGraph primitives, on a graph value                           *)
(*   G = [nodes, order, adj, edges]                                        *)

G0 == [nodes |-> EmptyDict, order |-> <<>>, adj |-> EmptyDict, edges |-> EmptyDict]

\* a variant of add_node that replaces a known node's attribute dict
NxAddNode_Replacing(G, n, attr) ==
    IF n \in DOMAIN G.nodes
    THEN [G EXCEPT !.nodes = [@ EXCEPT ![n] = attr]]
    ELSE [G EXCEPT !.nodes = (n :> attr) @@ @,
                   !.order = Append(@, n),
                   !.adj = (n :> <<>>) @@ @]

\* DiGraph.add_node(n, **attr): a new node gets attr, a known node is updated
NxAddNode(G, n, attr) ==
    IF n \in DOMAIN G.nodes
    THEN [G EXCEPT !.nodes = [@ EXCEPT ![n] = DictUpdate(@, attr)]]
    ELSE [G EXCEPT !.nodes = (n :> attr) @@ @,
                   !.order = Append(@, n),
                   !.adj = (n :> <<>>) @@ @]

NxHasEdge(G, u, v) == <<u, v>> \in DOMAIN G.edges

\* DiGraph.add_edge(u, v, **attr): missing endpoints are created with an
\* empty attribute dict (u first), a known edge's data dict is updated
NxAddEdge(G, u, v, attr) ==
    LET G1 == NxAddNode(G, u, EmptyDict)
        G2 == NxAddNode(G1, v, EmptyDict)
    IN  IF NxHasEdge(G2, u, v)
        THEN [G2 EXCEPT !.edges = [@ EXCEPT ![<<u, v>>] = DictUpdate(@, attr)]]
        ELSE [G2 EXCEPT !.edges = (<<u, v>> :> attr) @@ @,
                        !.adj = [@ EXCEPT ![u] = Append(@, v)]]

\* a variant of remove_nodes_from that leaves the edges of the nodes behind
NxRemoveNodes_KeepingEdges(G, ns) ==
    [nodes |-> DictWithout(G.nodes, ns),
     order |-> SeqWithout(G.order, ns),
     adj   |-> [n \in (DOMAIN G.adj) \ ns |-> G.adj[n]],
     edges |-> DictWithout(G.edges, {e \in DOMAIN G.edges : e[1] \in ns})]

\* DiGraph.remove_nodes_from(ns): the nodes and every edge touching them
NxRemoveNodes(G, ns) ==
    [nodes |-> DictWithout(G.nodes, ns),
     order |-> SeqWithout(G.order, ns),
     adj   |-> [n \in (DOMAIN G.adj) \ ns |-> SeqWithout(G.adj[n], ns)],
     edges |-> DictWithout(G.edges,
                  {e \in DOMAIN G.edges : e[1] \in ns \/ e[2] \in ns})]

\* DiGraph.remove_edges_from(es)
NxRemoveEdges(G, es) ==
    [G EXCEPT !.edges = DictWithout(@, es),
              !.adj = [n \in DOMAIN @ |->
                          SelectSeq(@[n], LAMBDA v : <<n, v>> \notin es)]]

NumberOfNodes(G) == Cardinality(DOMAIN G.nodes)
NumberOfEdges(G) == Cardinality(DOMAIN G.edges)

----------------------------------------------------------------------------
(* TemporalGraph._prune_old_nodes *)

\* data.get('timestamp') or data.get('created_at') is truthy
HasTime(d) == "timestamp" \in DOMAIN d \/ "created_at" \in DOMAIN d

\* data.get('timestamp', data.get('created_at'))
TimeOf(d) == IF "timestamp" \in DOMAIN d THEN d["timestamp"] ELSE d["created_at"]

\* list.sort(key = the node's time), built by stable insertion: x goes after
\* every element of the sorted sequence s whose time is not later than x's
RECURSIVE InsertSorted(_, _, _)
InsertSorted(s, x, nd) ==
    IF s = <<>> THEN <<x>>
    ELSE IF TimeOf(nd[x]) < TimeOf(nd[Head(s)]) THEN <<x>> \o s
         ELSE <<Head(s)>> \o InsertSorted(Tail(s), x, nd)

RECURSIVE SortByTime(_, _)
SortByTime(s, nd) ==
    IF s = <<>> THEN <<>>
    ELSE InsertSorted(SortByTime(SubSeq(s, 1, Len(s) - 1), nd), s[Len(s)], nd)

Max(a, b) == IF a > b THEN a ELSE b
Min(a, b) == IF a < b THEN a ELSE b

\* a variant that always removes a single node
NumToRemove_One(cap) == 1

\* num_to_remove = max(1, int(self.max_nodes * 0.1))
NumToRemove(cap) == Max(1, cap \div 10)

\* the node ids _prune_old_nodes removes from G
PruneSet(G, cap) ==
    LET timestamped == SelectSeq(G.order, LAMBDA n : HasTime(G.nodes[n]))
        sorted == SortByTime(timestamped, G.nodes)
    IN  Range(SubSeq(sorted, 1, Min(NumToRemove(cap), Len(sorted))))

PruneOldNodes(G, cap) == NxRemoveNodes(G, PruneSet(G, cap))

----------------------------------------------------------------------------
(* TemporalGraph operations, on a graph value *)

\* dict.get(k, default)
DictGet(d, k, default) == IF k \in DOMAIN d THEN d[k] ELSE default

\* the keyword arguments add_activity_node passes to add_node
ActivityAttrs(activity_type, timestamp, attributes) ==
    DictUpdate([node_type |-> "activity", activity_type |-> activity_type,
                timestamp |-> timestamp], attributes)

\* a variant that tolerates one node above the maximum
PruneTriggered_OneLate(G, cap) == NumberOfNodes(G) > cap + 1

\* whether add_activity_node calls _prune_old_nodes after the insertion
PruneTriggered(G, cap) == NumberOfNodes(G) > cap

\* add_activity_node: add_node, then prune if the count exceeds max_nodes
add_activity_node(G, cap, activity_id, activity_type, timestamp, attributes) ==
    LET G1 == NxAddNode(G, activity_id,
                        ActivityAttrs(activity_type, timestamp, attributes))
    IN  IF PruneTriggered(G1, cap) THEN PruneOldNodes(G1, cap) ELSE G1

\* add_context_node: add_node with created_at = datetime.now(); no pruning
add_context_node(G, t, context_id, context_name, attributes) ==
    NxAddNode(G, context_id,
              DictUpdate([node_type |-> "context", context_name |-> context_name,
                          created_at |-> t], attributes))

\* a variant that accumulates without the cap
AccumulatedStrength_Uncapped(old, strength) == RAdd(old, strength)

\* the strength an existing edge gets: min(1.0, old + strength)
AccumulatedStrength(old, strength) == RMin(One, RAdd(old, strength))

\* add_temporal_edge: accumulate into a known edge, else add_edge (which
\* creates missing endpoints); nothing is rejected and nothing is pruned
add_temporal_edge(G, t, from_node, to_node, relationship, strength, attributes) ==
    IF NxHasEdge(G, from_node, to_node)
    THEN LET edge_data == G.edges[<<from_node, to_node>>]
             updated == DictUpdate(
                 DictUpdate(edge_data,
                     [strength |-> AccumulatedStrength(
                                       DictGet(edge_data, "strength", Zero), strength),
                      last_updated |-> t]),
                 attributes)
         IN  [G EXCEPT !.edges = [@ EXCEPT ![<<from_node, to_node>>] = updated]]
    ELSE NxAddEdge(G, from_node, to_node,
                   DictUpdate([relationship |-> relationship, strength |-> strength,
                               created_at |-> t, last_updated |-> t], attributes))

\* connect_sequential_activities raises ZeroDivisionError when
\* 1.0 + time_delta / 3600 is zero
SequentialRaises(time_delta) == 3600 + time_delta = 0

\* strength = 1.0 / (1.0 + time_delta.total_seconds() / 3600)
SequentialStrength(time_delta) == Rat(3600, 3600 + time_delta)

connect_sequential_activities(G, t, activity_id1, activity_id2, time_delta) ==
    add_temporal_edge(G, t, activity_id1, activity_id2, "followed_by",
                      SequentialStrength(time_delta), [time_delta |-> time_delta])

link_activity_to_context(G, t, activity_id, context_id, confidence) ==
    add_temporal_edge(G, t, activity_id, context_id, "belongs_to", confidence,
                      EmptyDict)

\* decay_rate or self.decay_factor: None and 0.0 are both falsy; the rate
\* argument Zero stands for either
EffectiveRate(decay_rate, factor) == IF decay_rate = Zero THEN factor ELSE decay_rate

\* a variant that divides every strength by the rate
DecayedEdges_Dividing(E, rate) ==
    [e \in DOMAIN E |->
        DictUpdate(E[e], [strength |-> RMul(DictGet(E[e], "strength", One),
                                            Rat(rate[2], rate[1]))])]

\* the first loop of decay_edges: every strength times the rate
DecayedEdges(E, rate) ==
    [e \in DOMAIN E |->
        DictUpdate(E[e], [strength |-> RMul(DictGet(E[e], "strength", One), rate)])]

\* a variant that removes the edges weaker than 0.5
WeakEdges_BelowHalf(E) == {e \in DOMAIN E : RLess(DictGet(E[e], "strength", Zero), <<1, 2>>)}

\* to_remove of decay_edges: the edges now weaker than 0.1
WeakEdges(E) == {e \in DOMAIN E : RLess(DictGet(E[e], "strength", Zero), WeakEdge)}

\* a variant that decays and removes nothing
decay_edges_KeepingWeak(G, factor, decay_rate) ==
    [G EXCEPT !.edges = DecayedEdges(@, EffectiveRate(decay_rate, factor))]

decay_edges(G, factor, decay_rate) ==
    LET G1 == [G EXCEPT !.edges = DecayedEdges(@, EffectiveRate(decay_rate, factor))]
    IN  NxRemoveEdges(G1, WeakEdges(G1.edges))

----------------------------------------------------------------------------
(* TemporalGraph queries, on a graph value *)

\* the value of dict.get(k) for a missing key
None == "None"

\* list.sort(key = the item's field f, reverse = True), built by stable
\* insertion: x goes after every element of s whose f is not smaller than x's
RECURSIVE InsertDescending(_, _, _)
InsertDescending(s, x, f) ==
    IF s = <<>> THEN <<x>>
    ELSE IF RLess(Head(s)[f], x[f]) THEN <<x>> \o s
         ELSE <<Head(s)>> \o InsertDescending(Tail(s), x, f)

RECURSIVE SortDescending(_, _)
SortDescending(s, f) ==
    IF s = <<>> THEN <<>>
    ELSE InsertDescending(SortDescending(SubSeq(s, 1, Len(s) - 1), f), s[Len(s)], f)

\* the slice s[:k] of a list, k of either sign
SliceTo(s, k) ==
    IF k >= 0 THEN SubSeq(s, 1, Min(k, Len(s)))
    ELSE SubSeq(s, 1, Max(0, Len(s) + k))

\* a variant that reports the strength of the last edge alone
RelatedItem_EdgeStrength(G, current, neighbor, new_strength) ==
    [activity_id |-> neighbor,
     relationship |-> DictGet(G.edges[<<current.node, neighbor>>], "relationship", None),
     strength |-> DictGet(G.edges[<<current.node, neighbor>>], "strength", Zero),
     depth |-> current.depth + 1,
     activity_type |-> DictGet(G.nodes[neighbor], "activity_type", None),
     timestamp |-> DictGet(G.nodes[neighbor], "timestamp", None)]

\* the item get_related_activities appends for a neighbor
RelatedItem(G, current, neighbor, new_strength) ==
    [activity_id |-> neighbor,
     relationship |-> DictGet(G.edges[<<current.node, neighbor>>], "relationship", None),
     strength |-> new_strength,
     depth |-> current.depth + 1,
     activity_type |-> DictGet(G.nodes[neighbor], "activity_type", None),
     timestamp |-> DictGet(G.nodes[neighbor], "timestamp", None)]

\* a variant that does not remember the nodes it has seen
RECURSIVE ScanNeighbors_Revisiting(_, _, _, _, _)
ScanNeighbors_Revisiting(G, current, neighbors, T, min_strength) ==
    IF neighbors = <<>> THEN T
    ELSE LET neighbor == Head(neighbors)
             edge_strength == DictGet(G.edges[<<current.node, neighbor>>], "strength", Zero)
             new_strength == RMul(current.strength, edge_strength)
         IN  IF RLess(edge_strength, min_strength)
             THEN ScanNeighbors_Revisiting(G, current, Tail(neighbors), T, min_strength)
             ELSE ScanNeighbors_Revisiting(G, current, Tail(neighbors),
                      [queue |-> Append(T.queue, [node |-> neighbor,
                                                  depth |-> current.depth + 1,
                                                  strength |-> new_strength]),
                       visited |-> T.visited,
                       related |-> IF DictGet(G.nodes[neighbor], "node_type", None) = "activity"
                                   THEN Append(T.related,
                                               RelatedItem(G, current, neighbor, new_strength))
                                   ELSE T.related],
                      min_strength)

\* a variant that does not traverse through the nodes it does not return
RECURSIVE ScanNeighbors_StoppingAtContext(_, _, _, _, _)
ScanNeighbors_StoppingAtContext(G, current, neighbors, T, min_strength) ==
    IF neighbors = <<>> THEN T
    ELSE LET neighbor == Head(neighbors)
             edge_strength == DictGet(G.edges[<<current.node, neighbor>>], "strength", Zero)
             new_strength == RMul(current.strength, edge_strength)
         IN  IF neighbor \in T.visited \/ RLess(edge_strength, min_strength)
             THEN ScanNeighbors_StoppingAtContext(G, current, Tail(neighbors), T, min_strength)
             ELSE IF DictGet(G.nodes[neighbor], "node_type", None) = "activity"
                  THEN ScanNeighbors_StoppingAtContext(G, current, Tail(neighbors),
                           [queue |-> Append(T.queue, [node |-> neighbor,
                                                       depth |-> current.depth + 1,
                                                       strength |-> new_strength]),
                            visited |-> T.visited \cup {neighbor},
                            related |-> Append(T.related,
                                               RelatedItem(G, current, neighbor, new_strength))],
                           min_strength)
                  ELSE ScanNeighbors_StoppingAtContext(G, current, Tail(neighbors),
                           [T EXCEPT !.visited = @ \cup {neighbor}], min_strength)

\* a variant that follows the edges weaker than min_strength too
RECURSIVE ScanNeighbors_FollowingWeak(_, _, _, _, _)
ScanNeighbors_FollowingWeak(G, current, neighbors, T, min_strength) ==
    IF neighbors = <<>> THEN T
    ELSE LET neighbor == Head(neighbors)
             edge_strength == DictGet(G.edges[<<current.node, neighbor>>], "strength", Zero)
             new_strength == RMul(current.strength, edge_strength)
         IN  IF neighbor \in T.visited
             THEN ScanNeighbors_FollowingWeak(G, current, Tail(neighbors), T, min_strength)
             ELSE ScanNeighbors_FollowingWeak(G, current, Tail(neighbors),
                      [queue |-> Append(T.queue, [node |-> neighbor,
                                                  depth |-> current.depth + 1,
                                                  strength |-> new_strength]),
                       visited |-> T.visited \cup {neighbor},
                       related |-> IF DictGet(G.nodes[neighbor], "node_type", None) = "activity"
                                   THEN Append(T.related,
                                               RelatedItem(G, current, neighbor, new_strength))
                                   ELSE T.related],
                      min_strength)

\* the for loop over self.graph.neighbors(current_node): T is the traversal
\* state [queue, visited, related], neighbors the successors still to look at
RECURSIVE ScanNeighbors(_, _, _, _, _)
ScanNeighbors(G, current, neighbors, T, min_strength) ==
    IF neighbors = <<>> THEN T
    ELSE LET neighbor == Head(neighbors)
             edge_strength == DictGet(G.edges[<<current.node, neighbor>>], "strength", Zero)
             new_strength == RMul(current.strength, edge_strength)
         IN  IF neighbor \in T.visited \/ RLess(edge_strength, min_strength)
             THEN ScanNeighbors(G, current, Tail(neighbors), T, min_strength)
             ELSE ScanNeighbors(G, current, Tail(neighbors),
                      [queue |-> Append(T.queue, [node |-> neighbor,
                                                  depth |-> current.depth + 1,
                                                  strength |-> new_strength]),
                       visited |-> T.visited \cup {neighbor},
                       related |-> IF DictGet(G.nodes[neighbor], "node_type", None) = "activity"
                                   THEN Append(T.related,
                                               RelatedItem(G, current, neighbor, new_strength))
                                   ELSE T.related],
                      min_strength)

\* a variant that expands the nodes found at max_depth too
RECURSIVE Traverse_OneDeeper(_, _, _, _)
Traverse_OneDeeper(G, T, max_depth, min_strength) ==
    IF T.queue = <<>> THEN T.related
    ELSE LET current == Head(T.queue)
             popped == [T EXCEPT !.queue = Tail(@)]
         IN  IF current.depth > max_depth
             THEN Traverse_OneDeeper(G, popped, max_depth, min_strength)
             ELSE Traverse_OneDeeper(G, ScanNeighbors(G, current, G.adj[current.node],
                                                      popped, min_strength),
                                     max_depth, min_strength)

\* the while loop of get_related_activities: pop the head of the queue, skip
\* it at max_depth, else scan its neighbors
RECURSIVE Traverse(_, _, _, _)
Traverse(G, T, max_depth, min_strength) ==
    IF T.queue = <<>> THEN T.related
    ELSE LET current == Head(T.queue)
             popped == [T EXCEPT !.queue = Tail(@)]
         IN  IF current.depth >= max_depth
             THEN Traverse(G, popped, max_depth, min_strength)
             ELSE Traverse(G, ScanNeighbors(G, current, G.adj[current.node],
                                            popped, min_strength),
                           max_depth, min_strength)

\* a variant that returns the items in the order the traversal found them
get_related_activities_Unsorted(G, activity_id, max_depth, min_strength) ==
    IF activity_id \notin DOMAIN G.nodes THEN <<>>
    ELSE Traverse(G, [queue |-> <<[node |-> activity_id, depth |-> 0, strength |-> One]>>,
                      visited |-> {activity_id},
                      related |-> <<>>],
                  max_depth, min_strength)

\* get_related_activities: breadth-first from activity_id, the items sorted by
\* strength, strongest first
get_related_activities(G, activity_id, max_depth, min_strength) ==
    IF activity_id \notin DOMAIN G.nodes THEN <<>>
    ELSE SortDescending(
             Traverse(G, [queue |-> <<[node |-> activity_id, depth |-> 0, strength |-> One]>>,
                          visited |-> {activity_id},
                          related |-> <<>>],
                      max_depth, min_strength),
             "strength")

\* get_context_activities: the predecessors of context_id over a belongs_to
\* edge; the order of the returned list is not modelled
get_context_activities(G, context_id) ==
    IF context_id \notin DOMAIN G.nodes THEN {}
    ELSE {e[1] : e \in {x \in DOMAIN G.edges :
                          /\ x[2] = context_id
                          /\ DictGet(G.edges[x], "relationship", None) = "belongs_to"}}

\* the attributes predict_next_activities reports for a node
PredictedAttributes(node_data) ==
    DictWithout(node_data, {"node_type", "activity_type", "timestamp"})

\* the predictions list before sorting: one item per followed_by successor
FollowedBy(G, current_activity_id) ==
    LET followers == SelectSeq(G.adj[current_activity_id],
            LAMBDA v : DictGet(G.edges[<<current_activity_id, v>>], "relationship", None)
                           = "followed_by")
    IN  [i \in 1 .. Len(followers) |->
            [activity_id |-> followers[i],
             probability |-> DictGet(G.edges[<<current_activity_id, followers[i]>>],
                                     "strength", Zero),
             activity_type |-> DictGet(G.nodes[followers[i]], "activity_type", None),
             attributes |-> PredictedAttributes(G.nodes[followers[i]])]]

\* a variant that reports every successor, whatever the relationship
predict_next_activities_AnyEdge(G, current_activity_id, top_k) ==
    IF current_activity_id \notin DOMAIN G.nodes THEN <<>>
    ELSE LET followers == G.adj[current_activity_id]
         IN  SliceTo(SortDescending(
                 [i \in 1 .. Len(followers) |->
                     [activity_id |-> followers[i],
                      probability |-> DictGet(G.edges[<<current_activity_id, followers[i]>>],
                                              "strength", Zero),
                      activity_type |-> DictGet(G.nodes[followers[i]], "activity_type", None),
                      attributes |-> PredictedAttributes(G.nodes[followers[i]])]],
                 "probability"), top_k)

\* predict_next_activities: the followed_by successors, most probable first,
\* cut to top_k
predict_next_activities(G, current_activity_id, top_k) ==
    IF current_activity_id \notin DOMAIN G.nodes THEN <<>>
    ELSE SliceTo(SortDescending(FollowedBy(G, current_activity_id), "probability"), top_k)

\* get_stats
get_stats(G, cap, factor) ==
    [total_nodes |-> NumberOfNodes(G),
     total_edges |-> NumberOfEdges(G),
     activity_nodes |-> Cardinality({n \in DOMAIN G.nodes :
                            DictGet(G.nodes[n], "node_type", None) = "activity"}),
     context_nodes |-> Cardinality({n \in DOMAIN G.nodes :
                            DictGet(G.nodes[n], "node_type", None) = "context"}),
     max_nodes |-> cap,
     decay_factor |-> factor]

----------------------------------------------------------------------------
(* ContextPredictor: fusion of the prediction candidates                   *)
(*                                                                         *)
(* A candidate is a dict with the keys type, confidence, data and reason   *)
(* (and text or activity_type, by source).  Its data payload is a dict in  *)
(* insertion order: a sequence of <<field, value>> items with distinct     *)
(* fields.  A string is modelled by the sequence of its tokens, so that    *)
(* "x in y" on strings is the contiguous-subsequence test.                 *)

\* the field names of a payload, in the order Python sorts them
FieldOrder == <<"app_name", "context_name", "created_at", "file_path", "window_title">>

FieldRank(field) == CHOOSE i \in DOMAIN FieldOrder : FieldOrder[i] = field

\* sorted(data.items()), built by insertion; the fields of a dict are
\* distinct, so the field alone decides the order
RECURSIVE InsertItem(_, _)
InsertItem(s, x) ==
    IF s = <<>> THEN <<x>>
    ELSE IF FieldRank(x[1]) < FieldRank(Head(s)[1]) THEN <<x>> \o s
         ELSE <<Head(s)>> \o InsertItem(Tail(s), x)

RECURSIVE SortedItems(_)
SortedItems(data) ==
    IF data = <<>> THEN <<>>
    ELSE InsertItem(SortedItems(SubSeq(data, 1, Len(data) - 1)), data[Len(data)])

\* a variant that keys a candidate by its items in insertion order
MergeKey_Unsorted(pred) == pred.data

\* key = tuple(sorted(data.items()))
MergeKey(pred) == SortedItems(pred.data)

\* the items of an attribute dict of the graph, as a payload
RECURSIVE ItemsFrom(_, _)
ItemsFrom(d, i) ==
    IF i > Len(FieldOrder) THEN <<>>
    ELSE IF FieldOrder[i] \in DOMAIN d
         THEN <<<<FieldOrder[i], d[FieldOrder[i]]>>>> \o ItemsFrom(d, i + 1)
         ELSE ItemsFrom(d, i + 1)

Items(d) == ItemsFrom(d, 1)

\* x in y, on strings
IsSubstring(x, y) ==
    \E i \in 0 .. (Len(y) - Len(x)) : SubSeq(y, i + 1, i + Len(x)) = x

\* a variant that averages the old and the incoming confidence unweighted
RunningAverage_Unweighted(old, count, incoming) == RMul(RAdd(old, incoming), <<1, 2>>)

\* (existing['confidence'] * count + pred['confidence']) / (count + 1)
RunningAverage(old, count, incoming) ==
    RMul(RAdd(RMul(old, <<count, 1>>), incoming), <<1, count + 1>>)

\* the separator "; " of the combined reasons
Separator == <<"; ">>

\* the if key in merged branch: existing absorbs pred
Absorb(existing, pred) ==
    LET count == DictGet(existing, "_count", 1)
    IN  DictUpdate(existing,
            [confidence |-> RunningAverage(existing.confidence, count, pred.confidence),
             _count |-> count + 1,
             reason |-> IF IsSubstring(pred.reason, existing.reason)
                        THEN existing.reason
                        ELSE existing.reason \o Separator \o pred.reason])

\* the merge loop: merged is the dict in insertion order, a sequence of
\* [key, pred]
RECURSIVE MergeLoop(_, _)
MergeLoop(merged, predictions) ==
    IF predictions = <<>> THEN merged
    ELSE LET pred == Head(predictions)
             key == MergeKey(pred)
             known == {i \in DOMAIN merged : merged[i].key = key}
         IN  IF known # {}
             THEN LET i == CHOOSE j \in known : TRUE
                  IN  MergeLoop([merged EXCEPT ![i].pred = Absorb(@, pred)],
                                Tail(predictions))
             ELSE MergeLoop(Append(merged,
                                [key |-> key,
                                 pred |-> DictUpdate(pred, [_count |-> 1])]),
                            Tail(predictions))

\* a variant that leaves the merged candidates in the order of insertion
Ranked_Unsorted(predictions) ==
    LET merged == MergeLoop(<<>>, predictions)
        values == [i \in DOMAIN merged |-> merged[i].pred]
    IN  [i \in DOMAIN values |-> DictWithout(values[i], {"_count"})]

\* ranked of _rank_and_deduplicate: merged.values() sorted by confidence,
\* highest first, the internal _count removed
Ranked(predictions) ==
    LET merged == MergeLoop(<<>>, predictions)
        values == [i \in DOMAIN merged |-> merged[i].pred]
        ranked == SortDescending(values, "confidence")
    IN  [i \in DOMAIN ranked |-> DictWithout(ranked[i], {"_count"})]

\* _rank_and_deduplicate
rank_and_deduplicate(predictions, max_results) == SliceTo(Ranked(predictions), max_results)

\* f"{x:.2f}": the hundredths of x, rounded
Hundredths(x) == (200 * x[1] + x[2]) \div (2 * x[2])

\* _predict_from_graph: one candidate per prediction of the graph
predict_from_graph(G, activity_id, top_k) ==
    LET next_activities == predict_next_activities(G, activity_id, top_k)
    IN  [i \in DOMAIN next_activities |->
            [type |-> "graph",
             confidence |-> next_activities[i].probability,
             data |-> Items(next_activities[i].attributes),
             activity_type |-> next_activities[i].activity_type,
             reason |-> <<"Historically follows current activity",
                          ToString(Hundredths(next_activities[i].probability))>>]]

\* a variant whose gate drops a candidate at exactly min_confidence
predict_context_Strict(G, current_activity, semantic, temporal, continuation, max_results, min_confidence) ==
    LET graph_predictions ==
            IF "activity_id" \in DOMAIN current_activity
            THEN predict_from_graph(G, current_activity["activity_id"], max_results)
            ELSE <<>>
        predictions == semantic \o graph_predictions \o temporal \o continuation
        ranked_predictions == rank_and_deduplicate(predictions, max_results)
    IN  SelectSeq(ranked_predictions,
                  LAMBDA p : RLess(min_confidence, DictGet(p, "confidence", Zero)))

\* a variant that gates the whole ranking and never truncates it
predict_context_Untruncated(G, current_activity, semantic, temporal, continuation, max_results, min_confidence) ==
    LET graph_predictions ==
            IF "activity_id" \in DOMAIN current_activity
            THEN predict_from_graph(G, current_activity["activity_id"], max_results)
            ELSE <<>>
        predictions == semantic \o graph_predictions \o temporal \o continuation
    IN  SelectSeq(Ranked(predictions),
                  LAMBDA p : RLeq(min_confidence, DictGet(p, "confidence", Zero)))

\* predict_context: the candidates of the four sources in the order
\* semantic, graph, time patterns, recent context, fused and then filtered
\* by min_confidence; semantic, temporal and continuation are the candidate
\* lists the three sources backed by the collaborators return
predict_context(G, current_activity, semantic, temporal, continuation, max_results, min_confidence) ==
    LET graph_predictions ==
            IF "activity_id" \in DOMAIN current_activity
            THEN predict_from_graph(G, current_activity["activity_id"], max_results)
            ELSE <<>>
        predictions == semantic \o graph_predictions \o temporal \o continuation
        ranked_predictions == rank_and_deduplicate(predictions, max_results)
    IN  SelectSeq(ranked_predictions,
                  LAMBDA p : RLeq(min_confidence, DictGet(p, "confidence", Zero)))

----------------------------------------------------------------------------
(* ContextPredictor: the sources backed by the collaborators.  A call that   *)
(* may raise returns [raised, ...]; the code has no try around any of them, *)
(* so an exception of a collaborator leaves through every caller.           *)

\* not x, on a string or None
Falsy(x) == x = None \/ x = ""

\* not query_text or not query_text.strip()
Blank(text) == \A i \in DOMAIN text : text[i] = " "

\* " | ".join(parts)
RECURSIVE Join(_)
Join(parts) ==
    IF parts = <<>> THEN <<>>
    ELSE IF Len(parts) = 1 THEN parts[1]
         ELSE parts[1] \o <<" | ">> \o Join(Tail(parts))

\* _build_context_description
build_context_description(activity) ==
    LET Part(field, label) ==
            IF Falsy(DictGet(activity, field, None)) THEN <<>>
            ELSE <<<<label, activity[field]>>>>
        parts == Part("app_name", "Application: ") \o Part("window_title", "Window: ")
                    \o Part("file_path", "File: ") \o Part("url", "URL: ")
    IN  IF parts # <<>> THEN Join(parts) ELSE <<"Current activity">>

\* EmbeddingStore.search_similar: store.raises tells whether the encoder or
\* the collection raises, store.hits is what the collection ranks nearest
search_similar(store, query_text, n_results, threshold) ==
    IF Blank(query_text) THEN [raised |-> FALSE, results |-> <<>>]
    ELSE IF store.raises THEN [raised |-> TRUE, results |-> <<>>]
    ELSE [raised |-> FALSE,
          results |-> SelectSeq(SliceTo(store.hits, n_results),
                                LAMBDA h : ~RLess(h.similarity, threshold))]

\* _predict_from_semantics
predict_from_semantics(store, context_description, n_results) ==
    LET found == search_similar(store, context_description, n_results, <<1, 2>>)
        similar_contexts == found.results
    IN  [raised |-> found.raised,
         predictions |->
            [i \in DOMAIN similar_contexts |->
                [type |-> "semantic",
                 confidence |-> similar_contexts[i].similarity,
                 data |-> similar_contexts[i].metadata,
                 text |-> similar_contexts[i].text,
                 reason |-> <<"Semantically similar",
                              ToString(Hundredths(similar_contexts[i].similarity))>>]]]

\* ActivityDatabase.get_recent_activities: db.raises tells whether sqlite
\* raises, db.rows are the activities, newest first, each with its age in
\* hours
get_recent_activities(db, limit, hours) ==
    IF db.raises THEN [raised |-> TRUE, rows |-> <<>>]
    ELSE [raised |-> FALSE,
          rows |-> SliceTo(SelectSeq(db.rows, LAMBDA a : a.age <= hours), limit)]

\* Counter: the keys of a list counted, in the order of first occurrence
RECURSIVE Counter(_)
Counter(keys) ==
    IF keys = <<>> THEN <<>>
    ELSE LET counted == Counter(SubSeq(keys, 1, Len(keys) - 1))
             key == keys[Len(keys)]
             known == {i \in DOMAIN counted : counted[i].key = key}
         IN  IF known # {}
             THEN LET i == CHOOSE j \in known : TRUE
                  IN  [counted EXCEPT ![i].count = RAdd(@, One)]
             ELSE Append(counted, [key |-> key, count |-> One])

\* Counter.most_common(n), n >= 0: the n highest counts, equal counts in
\* the order of first occurrence
most_common(counter, n) == SliceTo(SortDescending(counter, "count"), n)

\* _predict_from_time_patterns at the clock [hour, weekday]
predict_from_time_patterns(db, clock, n_results) ==
    LET recent_activities == get_recent_activities(db, 1000, 24 * 7)
        time_window_activities ==
            SelectSeq(recent_activities.rows,
                      LAMBDA a : /\ Abs(a.hour - clock.hour) <= 1
                                 /\ a.weekday = clock.weekday)
        counted == SliceTo(time_window_activities, n_results * 3)
        activity_counter ==
            Counter([i \in DOMAIN counted |-> <<counted[i].app_name, counted[i].window_title>>])
        total_count == Len(counted)
        common == most_common(activity_counter, n_results)
    IN  [raised |-> recent_activities.raised,
         predictions |->
            [i \in DOMAIN common |->
                [type |-> "temporal_pattern",
                 confidence |-> IF total_count > 0
                                THEN RMul(common[i].count, <<1, total_count>>)
                                ELSE Zero,
                 data |-> <<<<"app_name", common[i].key[1]>>,
                            <<"window_title", common[i].key[2]>>>>,
                 reason |-> <<"Common activity at this time",
                              ToString(common[i].count[1]), "occurrences">>]]]

\* a variant without the early return on an empty history: the share of the
\* recent activities is computed first, and divides by zero
predict_from_recent_context_Unguarded(db, n_results) ==
    LET recent == get_recent_activities(db, 20, 1)
    IN  [raised |-> recent.raised \/ recent.rows = <<>>, predictions |-> <<>>]

\* a variant without the ceiling of 0.9 on the confidence
predict_from_recent_context_Uncapped(db, n_results) ==
    LET recent == get_recent_activities(db, 20, 1)
        Counted(field) ==
            LET used == SelectSeq(recent.rows, LAMBDA a : ~Falsy(a[field]))
            IN  most_common(Counter([i \in DOMAIN used |-> used[i][field]]), n_results)
        Continuation(field, label, unit) ==
            LET common == Counted(field)
            IN  [i \in DOMAIN common |->
                    [type |-> "context_continuation",
                     confidence |-> RMul(common[i].count, <<1, Len(recent.rows)>>),
                     data |-> <<<<field, common[i].key>>>>,
                     reason |-> <<label, ToString(common[i].count[1]), unit>>]]
    IN  [raised |-> recent.raised,
         predictions |->
            IF recent.rows = <<>> THEN <<>>
            ELSE Continuation("app_name", "Recent focus", "recent activities")
                    \o Continuation("file_path", "Recently accessed", "times")]

\* _predict_from_recent_context
predict_from_recent_context(db, n_results) ==
    LET recent == get_recent_activities(db, 20, 1)
        Counted(field) ==
            LET used == SelectSeq(recent.rows, LAMBDA a : ~Falsy(a[field]))
            IN  most_common(Counter([i \in DOMAIN used |-> used[i][field]]), n_results)
        Continuation(field, label, unit) ==
            LET common == Counted(field)
            IN  [i \in DOMAIN common |->
                    [type |-> "context_continuation",
                     confidence |-> RMin(<<9, 10>>,
                                         RMul(common[i].count, <<1, Len(recent.rows)>>)),
                     data |-> <<<<field, common[i].key>>>>,
                     reason |-> <<label, ToString(common[i].count[1]), unit>>]]
    IN  [raised |-> recent.raised,
         predictions |->
            IF recent.rows = <<>> THEN <<>>
            ELSE Continuation("app_name", "Recent focus", "recent activities")
                    \o Continuation("file_path", "Recently accessed", "times")]

\* predict_context with its collaborators: the four sources are asked in
\* turn, and the exception of any of them ends the request
predict_context_outcome(G, store, db, clock, current_activity, max_results, min_confidence) ==
    LET context_description == build_context_description(current_activity)
        semantic_predictions ==
            predict_from_semantics(store, context_description, max_results)
        temporal_predictions == predict_from_time_patterns(db, clock, max_results)
        continuation_predictions == predict_from_recent_context(db, max_results)
        raised == \/ semantic_predictions.raised
                  \/ temporal_predictions.raised
                  \/ continuation_predictions.raised
    IN  [raised |-> raised,
         query_text |-> context_description,
         result |->
            IF raised THEN <<>>
            ELSE predict_context(G, current_activity,
                                 semantic_predictions.predictions,
                                 temporal_predictions.predictions,
                                 continuation_predictions.predictions,
                                 max_results, min_confidence)]

----------------------------------------------------------------------------
(* The inputs the callers draw from *)

ActivityIds == {"a1", "a2"}
ContextIds == {"c1", "a2"}
\* the (from, to) pairs edges are requested for
EdgePairs == {<<"a1", "a2">>, <<"a2", "c1">>}
ActivityTypes == {"window_focus", "file_access"}
\* the (activity_type, attributes) an activity is inserted with
ActivityArgs == {<<"window_focus", [app_name |-> "vscode"]>>, <<"file_access", EmptyDict>>}
\* the timestamps an activity is inserted with
Stamps == {0, 1}
ContextNames == {"work"}
Relationships == {"related_to"}
\* the (strength, attributes) add_temporal_edge is called with: 0.15 and no
\* attribute, 1.0 and one attribute
EdgeArgs == {<<<<3, 20>>, EmptyDict>>, <<One, [source |-> "manual"]>>}
\* seconds between two activities
TimeDeltas == {3600, -1800, -3600}
Confidences == {One}
\* the decay_rate argument: omitted (Zero), 0.5, 1.5
Rates == {Zero, <<1, 2>>, <<3, 2>>}
\* the configured decay_factor: the default 0.95
DecayFactors == {<<19, 20>>}
\* the configured max_nodes
Caps == {1, 2}

----------------------------------------------------------------------------
(* The ContextEngine: the threads that run its code *)

\* the two monitor threads that deliver activities to _handle_activity
Monitors == {"focus", "files"}

\* the monitor threads, the main thread in start(), and the signal handler,
\* which runs stop() on the main thread while start() is suspended
Threads == Monitors \cup {"main", "signal"}

\* a ContextEngine constructed and not started: where each thread is, the
\* activities counted, the id the activity log gives next, whether the
\* engine is running
NotStarted ==
    [pc |-> [t \in Threads |-> "idle"],
     activity_count |-> 0,
     next_id |-> 1,
     running |-> FALSE,
     final |-> FALSE,
     shutdown_decays |-> 0]

----------------------------------------------------------------------------
(* The state machine: one TemporalGraph object and its callers *)

TheGraph == [nodes |-> nodes, order |-> order, adj |-> adj, edges |-> edges]

\* the call just made: its name, its arguments, the instant it ran at,
\* whether it raised, and the node ids its prune removed
Call(op, args, raised, pruned) ==
    [op |-> op, args |-> args, at |-> now, raised |-> raised, pruned |-> pruned]

\* a call returns leaving the graph value H
Returns(H, call) ==
    /\ steps' = steps + 1
    /\ pre' = TheGraph
    /\ nodes' = H.nodes
    /\ order' = H.order
    /\ adj' = H.adj
    /\ edges' = H.edges
    /\ last' = call
    /\ UNCHANGED <<max_nodes, decay_factor, now, disk, daemon>>

\* TemporalGraph.__init__ without a persisted file: an empty DiGraph
Init ==
    /\ nodes = G0.nodes
    /\ order = G0.order
    /\ adj = G0.adj
    /\ edges = G0.edges
    /\ max_nodes \in Caps
    /\ decay_factor \in DecayFactors
    /\ now = 0
    /\ disk = <<>>
    /\ daemon = NotStarted
    /\ steps = 0
    /\ last = Call("init", <<>>, FALSE, {})
    /\ pre = G0

\* datetime.now() advances between calls
Tick ==
    /\ now < MaxTime
    /\ now' = now + 1
    /\ UNCHANGED <<nodes, order, adj, edges, max_nodes, decay_factor, disk, daemon, steps, last, pre>>

AddActivityNode(id, ty, ts, ex) ==
    LET G1 == NxAddNode(TheGraph, id, ActivityAttrs(ty, ts, ex))
    IN  Returns(add_activity_node(TheGraph, max_nodes, id, ty, ts, ex),
                Call("add_activity_node", <<id, ty, ts, ex>>, FALSE,
                     IF PruneTriggered(G1, max_nodes)
                     THEN PruneSet(G1, max_nodes) ELSE {}))

AddContextNode(id, name) ==
    Returns(add_context_node(TheGraph, now, id, name, EmptyDict),
            Call("add_context_node", <<id, name>>, FALSE, {}))

AddTemporalEdge(u, v, rel, s, ex) ==
    Returns(add_temporal_edge(TheGraph, now, u, v, rel, s, ex),
            Call("add_temporal_edge", <<u, v, rel, s, ex>>, FALSE, {}))

ConnectSequentialActivities(u, v, td) ==
    IF SequentialRaises(td)
    THEN Returns(TheGraph, Call("connect_sequential_activities", <<u, v, td>>, TRUE, {}))
    ELSE Returns(connect_sequential_activities(TheGraph, now, u, v, td),
                 Call("connect_sequential_activities", <<u, v, td>>, FALSE, {}))

LinkActivityToContext(u, v, c) ==
    Returns(link_activity_to_context(TheGraph, now, u, v, c),
            Call("link_activity_to_context", <<u, v, c>>, FALSE, {}))

DecayEdges(r) ==
    Returns(decay_edges(TheGraph, decay_factor, r),
            Call("decay_edges", <<r>>, FALSE, {}))

\* the callers of Spec: any call, with inputs from the sets above, while the
\* bound on the number of calls allows
CallAddActivityNode ==
    /\ steps < MaxSteps
    /\ \E id \in ActivityIds, a \in ActivityArgs, ts \in Stamps :
          AddActivityNode(id, a[1], ts, a[2])

CallAddContextNode ==
    /\ steps < MaxSteps
    /\ \E id \in ContextIds, name \in ContextNames : AddContextNode(id, name)

CallAddTemporalEdge ==
    /\ steps < MaxSteps
    /\ \E e \in EdgePairs, rel \in Relationships, a \in EdgeArgs :
          AddTemporalEdge(e[1], e[2], rel, a[1], a[2])

CallConnectSequentialActivities ==
    /\ steps < MaxSteps
    /\ \E e \in EdgePairs, td \in TimeDeltas : ConnectSequentialActivities(e[1], e[2], td)

CallLinkActivityToContext ==
    /\ steps < MaxSteps
    /\ \E e \in EdgePairs, c \in Confidences : LinkActivityToContext(e[1], e[2], c)

CallDecayEdges ==
    /\ steps < MaxSteps
    /\ \E r \in Rates : DecayEdges(r)

Next ==
    \/ Tick
    \/ CallAddActivityNode
    \/ CallAddContextNode
    \/ CallAddTemporalEdge
    \/ CallConnectSequentialActivities
    \/ CallLinkActivityToContext
    \/ CallDecayEdges

Spec == Init /\ [][Next]_vars

----------------------------------------------------------------------------
(* A store filled by insertions only, and a store near its capacity *)

\* the configured max_nodes of SpecInsert and SpecPrune
InsertCaps == {1, 2, 19, 20}

\* the number of activity nodes already inserted in the initial store
Prepopulated(cap) == Max(0, cap - 1)

\* the timestamp of the i-th of those nodes: distinct, not in insertion order
StampOf(i) == 10 + ((i * 7) % 23)

\* the timestamps later insertions carry: older than, between and newer than
\* the stamps of the initial store
FreshStamps == {1, 12, 19, 40, 41}

\* the store after add_activity_node(i, "window_focus", StampOf(i)) for the
\* ids i = 1 .. n in that order, n <= max_nodes (no insertion pruned)
Populated(n) ==
    [nodes |-> [i \in 1 .. n |-> ActivityAttrs("window_focus", StampOf(i), EmptyDict)],
     order |-> [i \in 1 .. n |-> i],
     adj   |-> [i \in 1 .. n |-> <<>>],
     edges |-> EmptyDict]

InitInsert ==
    /\ max_nodes \in InsertCaps
    /\ LET G == Populated(Prepopulated(max_nodes))
       IN  /\ nodes = G.nodes
           /\ order = G.order
           /\ adj = G.adj
           /\ edges = G.edges
           /\ pre = G
    /\ decay_factor \in DecayFactors
    /\ now = 0
    /\ disk = <<>>
    /\ daemon = NotStarted
    /\ steps = 0
    /\ last = Call("init", <<>>, FALSE, {})

\* the timestamps of the nodes now in the graph
LiveStamps == {TimeOf(nodes[n]) : n \in {m \in DOMAIN nodes : HasTime(nodes[m])}}

\* the next activity, with a timestamp no node of the graph has
InsertNext ==
    /\ steps < MaxSteps
    /\ \E ts \in FreshStamps \ LiveStamps, ty \in ActivityTypes :
          AddActivityNode(Prepopulated(max_nodes) + steps + 1, ty, ts, EmptyDict)

NextInsert == InsertNext

SpecInsert == InitInsert /\ [][NextInsert]_vars

\* edges requested between an activity and the ids 900 and 901, which no
\* activity of the store has
PrunePairs == {<<1, 900>>, <<900, 901>>}

\* an activity inserted under an id an edge request may have created
InsertStranger ==
    /\ steps < MaxSteps
    /\ \E ts \in FreshStamps : AddActivityNode(900, "file_access", ts, EmptyDict)

EdgeToStranger ==
    /\ steps < MaxSteps
    /\ \E e \in PrunePairs : AddTemporalEdge(e[1], e[2], "related_to", One, EmptyDict)

ContextStranger ==
    /\ steps < MaxSteps
    /\ AddContextNode(901, "work")

NextPrune ==
    \/ InsertNext
    \/ InsertStranger
    \/ EdgeToStranger
    \/ ContextStranger

SpecPrune == InitInsert /\ [][NextPrune]_vars

----------------------------------------------------------------------------
(* TemporalGraph persistence.  The file at persist_path is <<>> when it     *)
(* does not exist, else <<[whole, image]>>: the pickle image written, whole *)
(* unless the write was cut short.                                          *)

\* a variant that pickles the edges without their data dicts
pickle_dump_WithoutEdgeData(G) ==
    [node |-> [i \in DOMAIN G.order |-> <<G.order[i], G.nodes[G.order[i]]>>],
     succ |-> [i \in DOMAIN G.order |->
                 [j \in DOMAIN G.adj[G.order[i]] |->
                     <<G.adj[G.order[i]][j], EmptyDict>>]]]

\* pickle.dump(self.graph, f): the node dict and, per node, the successor
\* dict with the edge data, both in insertion order
pickle_dump(G) ==
    [node |-> [i \in DOMAIN G.order |-> <<G.order[i], G.nodes[G.order[i]]>>],
     succ |-> [i \in DOMAIN G.order |->
                 [j \in DOMAIN G.adj[G.order[i]] |->
                     <<G.adj[G.order[i]][j],
                       G.edges[<<G.order[i], G.adj[G.order[i]][j]>>]>>]]]

\* pickle.load(f): the DiGraph rebuilt from the image
pickle_load(image) ==
    LET ids == {image.node[i][1] : i \in DOMAIN image.node}
        At(n) == CHOOSE i \in DOMAIN image.node : image.node[i][1] = n
    IN  [nodes |-> [n \in ids |-> image.node[At(n)][2]],
         order |-> [i \in DOMAIN image.node |-> image.node[i][1]],
         adj |-> [n \in ids |->
                    [j \in DOMAIN image.succ[At(n)] |-> image.succ[At(n)][j][1]]],
         edges |-> LET E == UNION {{<<image.node[i][1], image.succ[i][j][1]>> :
                                       j \in DOMAIN image.succ[i]} :
                                   i \in DOMAIN image.node}
                   IN  [e \in E |->
                          LET i == At(e[1])
                              j == CHOOSE k \in DOMAIN image.succ[i] :
                                       image.succ[i][k][1] = e[2]
                          IN  image.succ[i][j][2]]]

\* how a save ends: the file is written; mkdir or open raises and the file
\* is as it was; or the dump raises after open has truncated the file
SaveOutcomes == {"written", "unwritten", "truncated"}

\* save(), persist_path being set
save(G, file, outcome) ==
    [raised |-> outcome # "written",
     disk |-> IF outcome = "unwritten" THEN file
              ELSE <<[whole |-> outcome = "written", image |-> pickle_dump(G)]>>]

\* load(): nothing without a file; an exception, the graph kept, on a file
\* that was cut short
load(G, file) ==
    IF file = <<>> THEN [raised |-> FALSE, graph |-> G]
    ELSE IF ~file[1].whole THEN [raised |-> TRUE, graph |-> G]
    ELSE [raised |-> FALSE, graph |-> pickle_load(file[1].image)]

\* TemporalGraph(persist_path, ...): an empty DiGraph, then load() if the
\* file exists
construct(file) == load(G0, file)

\* ContextEngine._periodic_save, the graph and the cleanup being enabled:
\* save, then decay_edges, then the cleanup of the activity log; whatever
\* is raised is logged and ends the cycle there
periodic_save(G, file, factor, outcome, cleanup_raises) ==
    LET saved == save(G, file, outcome)
    IN  [graph |-> IF saved.raised THEN G ELSE decay_edges(G, factor, Zero),
         disk |-> saved.disk,
         save_raised |-> saved.raised,
         logged |-> saved.raised \/ cleanup_raises,
         raised |-> FALSE]

----------------------------------------------------------------------------
(* A populated store and its readers: the queries of TemporalGraph,        *)
(* ContextPredictor.predict_context and save, next to the calls that       *)
(* remove edges                                                            *)

\* a call that returned result and left the graph as it was
Answer(op, args, result) ==
    [op |-> op, args |-> args, at |-> now, raised |-> FALSE, pruned |-> {},
     result |-> result]

\* the capacity the stores below are built under: the default max_nodes
DefaultCap == 10000

\* three activities in sequence: a1 -0.8-> a2 -0.5-> a3
ChainStore ==
    LET G1 == add_activity_node(G0, DefaultCap, "a1", "window_focus", 1, [app_name |-> "vscode"])
        G2 == add_activity_node(G1, DefaultCap, "a2", "window_focus", 2, [app_name |-> "firefox"])
        G3 == add_activity_node(G2, DefaultCap, "a3", "file_access", 3, [file_path |-> "main.py"])
        G4 == add_temporal_edge(G3, 0, "a1", "a2", "followed_by", <<4, 5>>, EmptyDict)
    IN  add_temporal_edge(G4, 0, "a2", "a3", "followed_by", <<1, 2>>, EmptyDict)

\* four activities with two paths from a1 to a4 (the first found the weaker),
\* a cycle back to a1, a self-loop, and a direct edge a1 -> a4 weaker still
DiamondStore ==
    LET G1 == add_activity_node(G0, DefaultCap, "a1", "window_focus", 1, [app_name |-> "vscode"])
        G2 == add_activity_node(G1, DefaultCap, "a2", "window_focus", 2, [app_name |-> "firefox"])
        G3 == add_activity_node(G2, DefaultCap, "a3", "file_access", 3, [file_path |-> "main.py"])
        G4 == add_activity_node(G3, DefaultCap, "a4", "window_focus", 4, [app_name |-> "vscode"])
        G5 == add_temporal_edge(G4, 0, "a1", "a2", "followed_by", <<1, 2>>, EmptyDict)
        G6 == add_temporal_edge(G5, 0, "a1", "a3", "followed_by", <<9, 10>>, EmptyDict)
        G7 == add_temporal_edge(G6, 0, "a2", "a4", "followed_by", <<1, 2>>, EmptyDict)
        G8 == add_temporal_edge(G7, 0, "a3", "a4", "followed_by", <<9, 10>>, EmptyDict)
        G9 == add_temporal_edge(G8, 0, "a4", "a1", "followed_by", <<9, 10>>, EmptyDict)
        G10 == add_temporal_edge(G9, 0, "a1", "a1", "related_to", One, EmptyDict)
    IN  add_temporal_edge(G10, 0, "a1", "a4", "related_to", <<1, 5>>, EmptyDict)

\* an activity a3 behind the context c1, an activity a4 behind the node a2
\* that an edge request created, and an edge weaker than 0.1
ContextStore ==
    LET G1 == add_activity_node(G0, DefaultCap, "a1", "window_focus", 1, [app_name |-> "vscode"])
        G2 == add_context_node(G1, 2, "c1", "work", EmptyDict)
        G3 == add_activity_node(G2, DefaultCap, "a3", "file_access", 3, [file_path |-> "main.py"])
        G4 == link_activity_to_context(G3, 0, "a1", "c1", One)
        G5 == add_temporal_edge(G4, 0, "c1", "a3", "related_to", <<4, 5>>, EmptyDict)
        G6 == connect_sequential_activities(G5, 0, "a1", "a2", 3600)
        G7 == add_activity_node(G6, DefaultCap, "a4", "window_focus", 4, [app_name |-> "vscode"])
        G8 == add_temporal_edge(G7, 0, "a2", "a4", "followed_by", <<4, 5>>, EmptyDict)
        G9 == link_activity_to_context(G8, 0, "a3", "c1", <<1, 20>>)
    IN  connect_sequential_activities(G9, 0, "a3", "a4", 1800)

Stores == {ChainStore, DiamondStore, ContextStore}

\* a store holding as many nodes as max_nodes allows
InitQuery ==
    /\ \E G \in Stores :
          /\ nodes = G.nodes
          /\ order = G.order
          /\ adj = G.adj
          /\ edges = G.edges
          /\ pre = G
          /\ max_nodes = NumberOfNodes(G)
    /\ decay_factor \in DecayFactors
    /\ now = 0
    /\ disk = <<>>
    /\ daemon = NotStarted
    /\ steps = 0
    /\ last = Call("init", <<>>, FALSE, {})

\* the node ids asked about: activities, a context, an id no store has, and
\* the empty id
QueryIds == {"a1", "a2", "c1", "zz", ""}
Depths == {0, 1, 2, 3}
\* min_strength: the default 0.1, and 0.5
MinStrengths == {WeakEdge, <<1, 2>>}
TopKs == {0, 1, 5}

GetRelatedActivities(activity_id, max_depth, min_strength) ==
    Returns(TheGraph,
            Answer("get_related_activities", <<activity_id, max_depth, min_strength>>,
                   get_related_activities(TheGraph, activity_id, max_depth, min_strength)))

PredictNextActivities(current_activity_id, top_k) ==
    Returns(TheGraph,
            Answer("predict_next_activities", <<current_activity_id, top_k>>,
                   predict_next_activities(TheGraph, current_activity_id, top_k)))

GetContextActivities(context_id) ==
    Returns(TheGraph,
            Answer("get_context_activities", <<context_id>>,
                   get_context_activities(TheGraph, context_id)))

GetStats ==
    Returns(TheGraph,
            Answer("get_stats", <<>>, get_stats(TheGraph, max_nodes, decay_factor)))

\* the current activities predict_context is asked about
CurrentActivities ==
    {[activity_id |-> "a1", app_name |-> "vscode"], [app_name |-> "vscode"]}

\* the candidates the semantic source returns
SemanticLists ==
    {<<>>,
     <<[type |-> "semantic", confidence |-> <<7, 10>>,
        data |-> <<<<"app_name", "firefox">>>>, text |-> <<"firefox">>,
        reason |-> <<"Semantically similar", "70">>]>>}

\* the min_confidence of the predictor: the default 0.6
MinConfidences == {<<3, 5>>}

\* a variant in which the prediction weakens the edges it has read
PredictContext_Consuming(current_activity, semantic, max_results, min_confidence) ==
    Returns(decay_edges(TheGraph, decay_factor, <<1, 2>>),
            Answer("predict_context", <<current_activity, semantic, max_results, min_confidence>>,
                   predict_context(TheGraph, current_activity, semantic, <<>>, <<>>,
                                   max_results, min_confidence)))

\* predict_context, the history collaborator holding no record
PredictContext(current_activity, semantic, max_results, min_confidence) ==
    Returns(TheGraph,
            Answer("predict_context", <<current_activity, semantic, max_results, min_confidence>>,
                   predict_context(TheGraph, current_activity, semantic, <<>>, <<>>,
                                   max_results, min_confidence)))

\* a call that leaves the graph value H and the file as given
Leaves(H, file, call) ==
    /\ steps' = steps + 1
    /\ pre' = TheGraph
    /\ nodes' = H.nodes
    /\ order' = H.order
    /\ adj' = H.adj
    /\ edges' = H.edges
    /\ last' = call
    /\ disk' = file
    /\ UNCHANGED <<max_nodes, decay_factor, now, daemon>>

Save(outcome) ==
    LET saved == save(TheGraph, disk, outcome)
    IN  Leaves(TheGraph, saved.disk, Call("save", <<outcome>>, saved.raised, {}))

CallGetRelatedActivities ==
    /\ steps < MaxSteps
    /\ \E n \in QueryIds, d \in Depths, m \in MinStrengths : GetRelatedActivities(n, d, m)

CallPredictNextActivities ==
    /\ steps < MaxSteps
    /\ \E n \in QueryIds, k \in TopKs : PredictNextActivities(n, k)

CallGetContextActivities ==
    /\ steps < MaxSteps
    /\ \E c \in QueryIds : GetContextActivities(c)

CallGetStats ==
    /\ steps < MaxSteps
    /\ GetStats

CallPredictContext ==
    /\ steps < MaxSteps
    /\ \E a \in CurrentActivities, s \in SemanticLists, k \in TopKs, c \in MinConfidences :
          PredictContext(a, s, k, c)

CallSave ==
    /\ steps < MaxSteps
    /\ \E outcome \in SaveOutcomes : Save(outcome)

\* one more activity in a store at capacity: the insertion prunes
InsertBeyondCapacity ==
    /\ steps < MaxSteps
    /\ AddActivityNode("a5", "window_focus", 5, EmptyDict)

\* an edge request that closes a cycle, or repeats
RequestEdge ==
    /\ steps < MaxSteps
    /\ AddTemporalEdge("a3", "a1", "followed_by", <<4, 5>>, EmptyDict)

\* a decay at the rate 0.5
DecayStore ==
    /\ steps < MaxSteps
    /\ DecayEdges(<<1, 2>>)

NextQuery ==
    \/ CallGetRelatedActivities
    \/ CallPredictNextActivities
    \/ CallGetContextActivities
    \/ CallGetStats
    \/ CallPredictContext
    \/ CallSave
    \/ InsertBeyondCapacity
    \/ RequestEdge
    \/ DecayStore

SpecQuery == InitQuery /\ [][NextQuery]_vars

----------------------------------------------------------------------------
(* A populated store, its file and the maintenance cycle *)

\* the call before this one, as the next call's record remembers it
Before == [op |-> last.op, raised |-> last.raised]

\* load() in the same store
Load ==
    LET loaded == load(TheGraph, disk)
    IN  Returns(loaded.graph,
                [op |-> "load", args |-> <<>>, at |-> now, raised |-> loaded.raised,
                 pruned |-> {}, after |-> Before])

\* a new store constructed on the same path, with the same configuration
Construct ==
    LET loaded == construct(disk)
    IN  Returns(loaded.graph,
                [op |-> "__init__", args |-> <<>>, at |-> now, raised |-> loaded.raised,
                 pruned |-> {}, after |-> Before])

\* one maintenance cycle, run on its own
PeriodicSave(outcome, cleanup_raises) ==
    LET cycle == periodic_save(TheGraph, disk, decay_factor, outcome, cleanup_raises)
    IN  Leaves(cycle.graph, cycle.disk,
               [op |-> "_periodic_save", args |-> <<outcome, cleanup_raises>>, at |-> now,
                raised |-> cycle.raised, pruned |-> {},
                save_raised |-> cycle.save_raised, logged |-> cycle.logged])

CallLoad ==
    /\ steps < MaxSteps
    /\ Load

CallConstruct ==
    /\ steps < MaxSteps
    /\ Construct

CallPeriodicSave ==
    /\ steps < MaxSteps
    /\ \E outcome \in SaveOutcomes, cleanup_raises \in BOOLEAN :
          PeriodicSave(outcome, cleanup_raises)

NextPersist ==
    \/ CallSave
    \/ CallLoad
    \/ CallConstruct
    \/ CallPeriodicSave
    \/ InsertBeyondCapacity
    \/ RequestEdge
    \/ DecayStore

SpecPersist == InitQuery /\ [][NextPersist]_vars

----------------------------------------------------------------------------
(* get_related_activities, one iteration of its while loop at a time *)

\* max_depth: the depths of the readers, and one above the node count of
\* every store
TraverseDepths == Depths \cup {5}

\* min_strength: every edge passes, the default 0.1, and 0.5
TraverseStrengths == MinStrengths \cup {Zero}

\* the state before the while loop: visited = {activity_id} and the queue
\* holding the start; the call returns [] at once for an id not in the graph
StartOfTraverse(G, activity_id) ==
    IF activity_id \notin DOMAIN G.nodes
    THEN [queue |-> <<>>, visited |-> {}, related |-> <<>>]
    ELSE [queue |-> <<[node |-> activity_id, depth |-> 0, strength |-> One]>>,
          visited |-> {activity_id},
          related |-> <<>>]

\* a store, and a call of get_related_activities about to enter its loop
InitTraverse ==
    /\ \E G \in Stores :
          /\ nodes = G.nodes
          /\ order = G.order
          /\ adj = G.adj
          /\ edges = G.edges
          /\ pre = G
          /\ max_nodes = DefaultCap
          /\ \E activity_id \in QueryIds, max_depth \in TraverseDepths,
                min_strength \in TraverseStrengths :
                last = [op |-> "traversing",
                        args |-> <<activity_id, max_depth, min_strength>>,
                        at |-> 0, raised |-> FALSE, pruned |-> {},
                        T |-> StartOfTraverse(G, activity_id),
                        popped |-> <<>>,
                        result |-> <<>>]
    /\ decay_factor = One
    /\ now = 0
    /\ disk = <<>>
    /\ daemon = NotStarted
    /\ steps = 0

\* one iteration of `while queue`: pop the head, skip it at max_depth, else
\* scan its neighbors
PopQueue ==
    /\ last.op = "traversing"
    /\ last.T.queue # <<>>
    /\ LET current == Head(last.T.queue)
           popped == [last.T EXCEPT !.queue = Tail(@)]
       IN  last' = [last EXCEPT
                      !.T = IF current.depth >= last.args[2]
                            THEN popped
                            ELSE ScanNeighbors(TheGraph, current, adj[current.node],
                                               popped, last.args[3]),
                      !.popped = Append(@, current.node)]
    /\ steps' = steps + 1
    /\ UNCHANGED <<nodes, order, adj, edges, max_nodes, decay_factor, now, disk, daemon, pre>>

\* the queue is empty: sort by strength and return
ReturnRelated ==
    /\ last.op = "traversing"
    /\ last.T.queue = <<>>
    /\ last' = [last EXCEPT !.op = "get_related_activities",
                            !.result = SortDescending(last.T.related, "strength")]
    /\ steps' = steps + 1
    /\ UNCHANGED <<nodes, order, adj, edges, max_nodes, decay_factor, now, disk, daemon, pre>>

NextTraverse ==
    \/ PopQueue
    \/ ReturnRelated

SpecTraverse == InitTraverse /\ [][NextTraverse]_vars /\ WF_vars(NextTraverse)

----------------------------------------------------------------------------
(* The fusion of candidate lists *)

\* the payloads of the candidates: two fields in either order, and one field
Payloads ==
    {<<<<"app_name", "vscode">>, <<"file_path", "main.py">>>>,
     <<<<"file_path", "main.py">>, <<"app_name", "vscode">>>>,
     <<<<"app_name", "vscode">>>>}

\* the (type, reason) of the candidates of two sources
Sources ==
    {<<"semantic", <<"Semantically similar">>>>,
     <<"graph", <<"Historically follows current activity">>>>}

\* the confidences of the candidates: 0.4 and 0.8
CandidateConfidences == {<<2, 5>>, <<4, 5>>}

Candidates ==
    {[type |-> src[1], confidence |-> c, data |-> d, reason |-> src[2]] :
        src \in Sources, c \in CandidateConfidences, d \in Payloads}

\* the longest candidate list fused
MaxCandidates == 3

CandidateLists == UNION {[1 .. n -> Candidates] : n \in 0 .. MaxCandidates}

\* max_results: one, and the default ten
MaxResults == {1, 10}

\* three candidates of three payloads, at the confidences 0.9, 0.5 and 0.7
ThresholdCandidates ==
    {[type |-> "semantic", confidence |-> <<9, 10>>,
      data |-> <<<<"app_name", "vscode">>, <<"file_path", "main.py">>>>,
      reason |-> <<"Semantically similar">>],
     [type |-> "semantic", confidence |-> <<1, 2>>,
      data |-> <<<<"app_name", "vscode">>>>,
      reason |-> <<"Semantically similar">>],
     [type |-> "graph", confidence |-> <<7, 10>>,
      data |-> <<<<"file_path", "main.py">>>>,
      reason |-> <<"Historically follows current activity">>]}

\* the lists of three of them
ThresholdLists == [1 .. 3 -> ThresholdCandidates]

\* the predictor is handed a candidate list to fuse
InitFusion ==
    /\ nodes = G0.nodes
    /\ order = G0.order
    /\ adj = G0.adj
    /\ edges = G0.edges
    /\ pre = G0
    /\ max_nodes = DefaultCap
    /\ decay_factor \in DecayFactors
    /\ now = 0
    /\ disk = <<>>
    /\ daemon = NotStarted
    /\ steps = 0
    /\ \E predictions \in CandidateLists \cup ThresholdLists, m \in MaxResults :
          last = Call("fuse", <<predictions, m>>, FALSE, {})

RankAndDeduplicate(predictions, max_results) ==
    Returns(TheGraph,
            Answer("_rank_and_deduplicate", <<predictions, max_results>>,
                   rank_and_deduplicate(predictions, max_results)))

CallRankAndDeduplicate ==
    /\ last.op = "fuse"
    /\ RankAndDeduplicate(last.args[1], last.args[2])

\* predict_context on an activity without activity_id, the candidates being
\* those of the semantic source and the history holding no record
PredictFromCandidates(predictions, max_results, min_confidence) ==
    Returns(TheGraph,
            Answer("predict_context", <<predictions, max_results, min_confidence>>,
                   predict_context(TheGraph, [app_name |-> "vscode"], predictions,
                                   <<>>, <<>>, max_results, min_confidence)))

CallPredictFromCandidates ==
    /\ last.op = "fuse"
    /\ \E c \in MinConfidences : PredictFromCandidates(last.args[1], last.args[2], c)

NextFusion ==
    \/ CallRankAndDeduplicate
    \/ CallPredictFromCandidates

SpecFusion == InitFusion /\ [][NextFusion]_vars

----------------------------------------------------------------------------
(* The predictor and its collaborators *)

\* the collaborator of the semantic source: it raises, it finds nothing, it
\* finds one context, or two of which one is below the threshold 0.5
SearchStores ==
    {[raises |-> TRUE, hits |-> <<>>],
     [raises |-> FALSE, hits |-> <<>>],
     [raises |-> FALSE,
      hits |-> <<[text |-> <<"App: ", "firefox">>,
                  metadata |-> <<<<"app_name", "firefox">>>>,
                  similarity |-> <<7, 10>>]>>],
     [raises |-> FALSE,
      hits |-> <<[text |-> <<"File: ", "main.py">>,
                  metadata |-> <<<<"file_path", "main.py">>>>,
                  similarity |-> <<9, 10>>],
                 [text |-> <<"App: ", "firefox">>,
                  metadata |-> <<<<"app_name", "firefox">>>>,
                  similarity |-> <<2, 5>>]>>]}

\* the rows of the activity log: two of this hour, one of a week ago
Rows ==
    {[age |-> 0, hour |-> 10, weekday |-> 0, app_name |-> "vscode",
      window_title |-> "main.py - vscode", file_path |-> None],
     [age |-> 0, hour |-> 10, weekday |-> 0, app_name |-> None,
      window_title |-> None, file_path |-> "main.py"],
     [age |-> 168, hour |-> 11, weekday |-> 0, app_name |-> "firefox",
      window_title |-> "docs", file_path |-> None]}

\* the most rows the activity log holds
MaxHistory == 2

\* the collaborator of the two history sources: it raises, or it holds rows,
\* newest first
Databases ==
    {[raises |-> TRUE, rows |-> <<>>]}
    \cup {[raises |-> FALSE, rows |-> rows] :
            rows \in {r \in UNION {[1 .. n -> Rows] : n \in 0 .. MaxHistory} :
                        \A i, j \in DOMAIN r : i < j => r[i].age <= r[j].age}}

\* the hour and the weekday of datetime.now()
Clock == [hour |-> 10, weekday |-> 0]

\* the activities predictions are asked for: known to the graph, not known
\* to it, with a blank field only, with no field at all
AskedActivities ==
    {[activity_id |-> "a1", app_name |-> "vscode"],
     [app_name |-> "vscode", window_title |-> "main.py - vscode"],
     [app_name |-> ""],
     EmptyDict}

\* max_results: one, and the 5 the daemon asks for
AskedResults == {1, 5}

\* the daemon's predictor over the chain store, about to be asked
InitPredict ==
    /\ nodes = ChainStore.nodes
    /\ order = ChainStore.order
    /\ adj = ChainStore.adj
    /\ edges = ChainStore.edges
    /\ pre = ChainStore
    /\ max_nodes = DefaultCap
    /\ decay_factor \in DecayFactors
    /\ now = 0
    /\ disk = <<>>
    /\ daemon = NotStarted
    /\ steps = 0
    /\ \E store \in SearchStores, db \in Databases, a \in AskedActivities,
          m \in AskedResults, c \in MinConfidences :
          last = Call("ask", <<store, db, a, m, c>>, FALSE, {})

PredictContextOutcome(store, db, current_activity, max_results, min_confidence) ==
    LET outcome == predict_context_outcome(TheGraph, store, db, Clock, current_activity,
                                           max_results, min_confidence)
    IN  Returns(TheGraph,
                [op |-> "predict_context",
                 args |-> <<store, db, current_activity, max_results, min_confidence>>,
                 at |-> now, raised |-> outcome.raised, pruned |-> {},
                 query_text |-> outcome.query_text, result |-> outcome.result])

CallPredictContextOutcome ==
    /\ last.op = "ask"
    /\ PredictContextOutcome(last.args[1], last.args[2], last.args[3],
                             last.args[4], last.args[5])

NextPredict == CallPredictContextOutcome

SpecPredict == InitPredict /\ [][NextPredict]_vars

----------------------------------------------------------------------------
(* PrivacyFilter, and _handle_activity from the filter to the three stores. *)
(* Strings are values of a small vocabulary; str.lower, the substring tests  *)
(* and the regular expressions are given by what they do to that vocabulary. *)

\* str.lower() on the application names and window titles of the vocabulary
Lower(text) ==
    CASE text = "KeePassXC" -> "keepassxc"
      [] text = "Thunderbird" -> "thunderbird"
      [] text = "Login - Bank" -> "login - bank"
      [] text = "Inbox bob@example.com" -> "inbox bob@example.com"
      [] text = "Docs" -> "docs"
      [] text = "Passwords" -> "passwords"
      [] OTHER -> text

\* the privacy configuration: blacklist_apps, blacklist_directories,
\* exclude_file_types, and the urls the patterns of blacklist_urls match
PrivacyConfig(enabled) ==
    [enabled |-> enabled,
     blacklist_apps |-> {"keepassxc"},
     blacklist_directories |-> {"/home/u/.ssh"},
     exclude_file_types |-> {".key"},
     blacklisted_urls |-> {"https://bank.example/login"}]

\* Path(file_path): its parents, its name and its suffix
PathOf(file_path) ==
    CASE file_path = "/home/u/Documents/notes.md"
           -> [parent |-> "/home/u/Documents", name |-> "notes.md", suffix |-> ".md",
               parents |-> {"/home/u/Documents", "/home/u", "/home", "/"}]
      [] file_path = "/home/u/.ssh/id_rsa"
           -> [parent |-> "/home/u/.ssh", name |-> "id_rsa", suffix |-> "",
               parents |-> {"/home/u/.ssh", "/home/u", "/home", "/"}]
      [] file_path = "/home/u/Documents/server.key"
           -> [parent |-> "/home/u/Documents", name |-> "server.key", suffix |-> ".key",
               parents |-> {"/home/u/Documents", "/home/u", "/home", "/"}]
      [] OTHER -> [parent |-> ".", name |-> file_path, suffix |-> "", parents |-> {"."}]

\* _is_url_blacklisted
is_url_blacklisted(config, url) == url \in config.blacklisted_urls

\* _is_path_blacklisted
is_path_blacklisted(config, file_path) ==
    \/ file_path \in config.blacklist_directories
    \/ PathOf(file_path).parents \cap config.blacklist_directories # {}

\* _is_file_type_excluded
is_file_type_excluded(config, file_path) ==
    PathOf(file_path).suffix \in config.exclude_file_types

\* _contains_sensitive_keywords: a keyword of the list occurs in text.lower()
contains_sensitive_keywords(text) ==
    IF Falsy(text) THEN FALSE
    ELSE Lower(text) \in {"login - bank", "passwords"}

\* should_track_activity: [raised, track]; None has no lower()
should_track_activity(config, activity) ==
    IF ~config.enabled THEN [raised |-> FALSE, track |-> TRUE]
    ELSE IF DictGet(activity, "app_name", "") = None
    THEN [raised |-> TRUE, track |-> FALSE]
    ELSE LET app_name == Lower(DictGet(activity, "app_name", ""))
             url == DictGet(activity, "url", None)
             file_path == DictGet(activity, "file_path", None)
             window_title == DictGet(activity, "window_title", "")
         IN  [raised |-> FALSE,
              track |->
                 /\ app_name \notin config.blacklist_apps
                 /\ ~(~Falsy(url) /\ is_url_blacklisted(config, url))
                 /\ ~(~Falsy(file_path) /\ is_path_blacklisted(config, file_path))
                 /\ ~(~Falsy(file_path) /\ is_file_type_excluded(config, file_path))
                 /\ ~contains_sensitive_keywords(window_title)]

\* _sanitize_window_title: a parenthesis naming a password becomes (***), an
\* e-mail address [EMAIL], a run of 32 or more letters and digits [TOKEN]
sanitize_window_title(title) ==
    CASE title = "Inbox bob@example.com" -> "Inbox [EMAIL]"
      [] title = "0123456789abcdef0123456789abcdef - notes" -> "[TOKEN] - notes"
      [] OTHER -> title

\* _sanitize_url: the value of a sensitive query parameter becomes [REDACTED]
sanitize_url(url) ==
    CASE url = "https://x.example/?token=abc123" -> "https://x.example/?token=[REDACTED]"
      [] OTHER -> url

\* _sanitize_file_path
sanitize_file_path(config, file_path) ==
    IF Falsy(file_path) THEN file_path
    ELSE IF is_path_blacklisted(config, file_path) THEN "[PRIVATE]"
    ELSE file_path

\* sanitize_activity
sanitize_activity(config, activity) ==
    IF ~config.enabled THEN activity
    ELSE [k \in DOMAIN activity |->
            CASE k = "window_title" -> sanitize_window_title(activity[k])
              [] k = "url" -> sanitize_url(activity[k])
              [] k = "file_path" -> sanitize_file_path(config, activity[k])
              [] OTHER -> activity[k]]

\* ContextEngine._build_context_text: the parts joined by " | "
build_context_text(activity) ==
    <<<<"Activity:", DictGet(activity, "activity_type", "activity")>>>>
    \o (IF ~Falsy(DictGet(activity, "app_name", None))
        THEN <<<<"App:", activity["app_name"]>>>> ELSE <<>>)
    \o (IF ~Falsy(DictGet(activity, "window_title", None))
        THEN <<<<"Window:", activity["window_title"]>>>> ELSE <<>>)
    \o (IF ~Falsy(DictGet(activity, "file_path", None))
        THEN <<<<"File:", PathOf(activity["file_path"]).name, "in",
                 PathOf(activity["file_path"]).parent>>>>
        ELSE <<>>)

\* ActivityDatabase.record_activity: the row inserted, under the id given
record_activity(activity_id, activity) ==
    [id |-> activity_id,
     activity_type |-> activity["activity_type"],
     app_name |-> DictGet(activity, "app_name", None),
     window_title |-> DictGet(activity, "window_title", None),
     file_path |-> DictGet(activity, "file_path", None),
     url |-> DictGet(activity, "url", None)]

\* a variant of _handle_activity that gives the graph the activity as the
\* monitor delivered it
handle_activity_RawToGraph(config, engine, G, cap, t, activity) ==
    LET gate == should_track_activity(config, activity)
    IN  IF gate.raised \/ ~gate.track
        THEN [engine |-> engine, graph |-> G, tracked |-> FALSE]
        ELSE LET sanitized == sanitize_activity(config, activity)
                 activity_id == engine.next_id
                 doc_id == "activity_" \o ToString(activity_id)
             IN  [engine |->
                     [engine EXCEPT
                        !.rows = Append(@, record_activity(activity_id, sanitized)),
                        !.next_id = @ + 1,
                        !.activity_count = @ + 1,
                        !.docs = Append(@, [id |-> doc_id,
                                            text |-> build_context_text(sanitized),
                                            metadata |-> DictUpdate(
                                                [activity_id |-> activity_id,
                                                 timestamp |-> t], sanitized)])],
                  graph |-> add_activity_node(G, cap, doc_id,
                                DictGet(activity, "activity_type", "unknown"), t,
                                DictWithout(activity, {"activity_type"})),
                  tracked |-> TRUE]

\* _handle_activity up to the node of the graph: the filter, the sanitizer,
\* the row of the database, the document of the embedding store, the node;
\* an exception of the filter is logged and ends the call
handle_activity(config, engine, G, cap, t, activity) ==
    LET gate == should_track_activity(config, activity)
    IN  IF gate.raised \/ ~gate.track
        THEN [engine |-> engine, graph |-> G, tracked |-> FALSE]
        ELSE LET sanitized == sanitize_activity(config, activity)
                 activity_id == engine.next_id
                 doc_id == "activity_" \o ToString(activity_id)
             IN  [engine |->
                     [engine EXCEPT
                        !.rows = Append(@, record_activity(activity_id, sanitized)),
                        !.next_id = @ + 1,
                        !.activity_count = @ + 1,
                        !.docs = Append(@, [id |-> doc_id,
                                            text |-> build_context_text(sanitized),
                                            metadata |-> DictUpdate(
                                                [activity_id |-> activity_id,
                                                 timestamp |-> t], sanitized)])],
                  graph |-> add_activity_node(G, cap, doc_id,
                                DictGet(sanitized, "activity_type", "unknown"), t,
                                DictWithout(sanitized, {"activity_type"})),
                  tracked |-> TRUE]

\* what the monitors, and other callers of the handler, deliver
RawActivities ==
    {[activity_type |-> "window_focus_start", app_name |-> "vscode",
      window_title |-> "main.py - vscode"],
     [activity_type |-> "window_focus_start", app_name |-> "Thunderbird",
      window_title |-> "Inbox bob@example.com"],
     [activity_type |-> "window_focus_start", app_name |-> "vscode",
      window_title |-> "0123456789abcdef0123456789abcdef - notes"],
     [activity_type |-> "window_focus_start", app_name |-> "KeePassXC",
      window_title |-> "Passwords"],
     [activity_type |-> "window_focus_start", app_name |-> None,
      window_title |-> None],
     [activity_type |-> "window_focus_start", app_name |-> "firefox",
      window_title |-> "Login - Bank"],
     [activity_type |-> "window_focus_start", app_name |-> "firefox",
      window_title |-> "Docs", url |-> "https://x.example/?token=abc123"],
     [activity_type |-> "window_focus_start", app_name |-> "firefox",
      window_title |-> "Docs", url |-> "https://bank.example/login"],
     [activity_type |-> "file_access", file_path |-> "/home/u/Documents/notes.md"],
     [activity_type |-> "file_access", file_path |-> "/home/u/.ssh/id_rsa"],
     [activity_type |-> "file_created", file_path |-> "/home/u/Documents/server.key"]}

\* the most activities handled in a run of the handler
MaxIngest == 2

\* the engine constructed over an empty database, an empty collection and no
\* graph file; privacy on or off
InitIngest ==
    /\ nodes = G0.nodes
    /\ order = G0.order
    /\ adj = G0.adj
    /\ edges = G0.edges
    /\ pre = G0
    /\ max_nodes = DefaultCap
    /\ decay_factor = One
    /\ now = 0
    /\ disk = <<>>
    /\ daemon = [activity_count |-> 0, next_id |-> 1, rows |-> <<>>, docs |-> <<>>]
    /\ steps = 0
    /\ \E enabled \in BOOLEAN :
          last = [op |-> "__init__", args |-> <<>>, at |-> 0, raised |-> FALSE,
                  pruned |-> {}, config |-> PrivacyConfig(enabled),
                  before |-> [activity_count |-> 0, next_id |-> 1,
                              rows |-> <<>>, docs |-> <<>>]]

\* _handle_activity(activity)
HandleOneActivity(activity) ==
    LET handled == handle_activity(last.config, daemon, TheGraph, max_nodes, now, activity)
    IN  /\ steps' = steps + 1
        /\ pre' = TheGraph
        /\ nodes' = handled.graph.nodes
        /\ order' = handled.graph.order
        /\ adj' = handled.graph.adj
        /\ edges' = handled.graph.edges
        /\ daemon' = handled.engine
        /\ last' = [op |-> "_handle_activity", args |-> <<activity>>, at |-> now,
                    raised |-> FALSE, pruned |-> {}, config |-> last.config,
                    before |-> daemon]
        /\ UNCHANGED <<max_nodes, decay_factor, now, disk>>

CallHandleActivity ==
    /\ steps < MaxIngest
    /\ \E activity \in RawActivities : HandleOneActivity(activity)

NextIngest == CallHandleActivity

SpecIngest == InitIngest /\ [][NextIngest]_vars

----------------------------------------------------------------------------
(* ActivityMonitor: the poll of the focused window *)

\* ActivityMonitor.__init__: no window seen yet; window_start_time is <<>>
\* for None and <<t>> for the datetime t
NewMonitor == [current_window |-> None, current_app |-> None, window_start_time |-> <<>>]

\* a variant that emits the start of the new window only
check_current_window_StartOnly(monitor, t, observed) ==
    IF observed.raises THEN [monitor |-> monitor, emitted |-> <<>>]
    ELSE IF observed.window_title # monitor.current_window
            \/ observed.app_name # monitor.current_app
    THEN [monitor |-> [current_window |-> observed.window_title,
                       current_app |-> observed.app_name,
                       window_start_time |-> <<t>>],
          emitted |-> <<[activity_type |-> "window_focus_start",
                         app_name |-> observed.app_name,
                         window_title |-> observed.window_title]>>]
    ELSE [monitor |-> monitor, emitted |-> <<>>]

\* _check_current_window at the instant t: observed is what the display
\* answers (it raises, or the title and the application of the focused
\* window, None where a property cannot be read); emitted are the activities
\* passed to _record_activity, in order
check_current_window(monitor, t, observed) ==
    IF observed.raises THEN [monitor |-> monitor, emitted |-> <<>>]
    ELSE IF observed.window_title # monitor.current_window
            \/ observed.app_name # monitor.current_app
    THEN [monitor |-> [current_window |-> observed.window_title,
                       current_app |-> observed.app_name,
                       window_start_time |-> <<t>>],
          emitted |->
             (IF ~Falsy(monitor.current_window) /\ monitor.window_start_time # <<>>
              THEN <<[activity_type |-> "window_focus",
                      app_name |-> monitor.current_app,
                      window_title |-> monitor.current_window,
                      duration |-> t - monitor.window_start_time[1]]>>
              ELSE <<>>)
             \o <<[activity_type |-> "window_focus_start",
                   app_name |-> observed.app_name,
                   window_title |-> observed.window_title]>>]
    ELSE [monitor |-> monitor, emitted |-> <<>>]

\* the most polls of a run, one poll_interval apart
MaxPolls == 3

\* what a poll can find focused
FocusedWindows ==
    {[raises |-> TRUE, window_title |-> None, app_name |-> None]}
    \cup [raises : {FALSE},
          window_title : {None, "", "main.py - vscode", "docs"},
          app_name : {None, "vscode", "firefox"}]

\* monitor.start(): the window-focus thread before its first poll
InitFocus ==
    /\ nodes = G0.nodes
    /\ order = G0.order
    /\ adj = G0.adj
    /\ edges = G0.edges
    /\ pre = G0
    /\ max_nodes = DefaultCap
    /\ decay_factor = One
    /\ now = 0
    /\ disk = <<>>
    /\ daemon = NewMonitor
    /\ steps = 0
    /\ last = [op |-> "start", args |-> <<>>, at |-> 0, raised |-> FALSE,
               pruned |-> {}, before |-> NewMonitor, emitted |-> <<>>]

\* one turn of the loop of _monitor_window_focus: the check, then the sleep
CheckCurrentWindow(observed) ==
    LET checked == check_current_window(daemon, now, observed)
    IN  /\ daemon' = checked.monitor
        /\ last' = [op |-> "_check_current_window", args |-> <<observed>>, at |-> now,
                    raised |-> FALSE, pruned |-> {}, before |-> daemon,
                    emitted |-> checked.emitted]
        /\ now' = now + 1
        /\ steps' = steps + 1
        /\ UNCHANGED <<nodes, order, adj, edges, max_nodes, decay_factor, disk, pre>>

PollFocus ==
    /\ steps < MaxPolls
    /\ \E observed \in FocusedWindows : CheckCurrentWindow(observed)

NextFocus == PollFocus

SpecFocus == InitFocus /\ [][NextFocus]_vars

----------------------------------------------------------------------------
(* FileAccessHandler: the debounce of file modifications *)

\* self.debounce_seconds
debounce_seconds == 5

\* a variant that notes the time of every event, the dropped ones too
should_record_Restarting(last_events, t, file_path) ==
    [record |-> ~(t - DictGet(last_events, file_path, 0) < debounce_seconds),
     last_events |-> DictUpdate(last_events, [k \in {file_path} |-> t])]

\* _should_record at time.time() = t: [record, last_events]
should_record(last_events, t, file_path) ==
    IF t - DictGet(last_events, file_path, 0) < debounce_seconds
    THEN [record |-> FALSE, last_events |-> last_events]
    ELSE [record |-> TRUE,
          last_events |-> DictUpdate(last_events, [k \in {file_path} |-> t])]

\* on_modified: the activities passed to the callback
on_modified(last_events, t, event) ==
    IF event.is_directory THEN [emitted |-> <<>>, last_events |-> last_events]
    ELSE LET should == should_record(last_events, t, event.src_path)
         IN  [emitted |-> IF should.record
                          THEN <<[activity_type |-> "file_access",
                                  file_path |-> event.src_path]>>
                          ELSE <<>>,
              last_events |-> should.last_events]

\* time.time() when the handler is created: seconds since 1970, in the model
\* a number above debounce_seconds
StartOfWatch == 100

\* the seconds the watch is followed for, and the most events in it
MaxWatch == 6
MaxEvents == 3

\* the modifications the observer reports
WatchedEvents == [is_directory : BOOLEAN, src_path : {"main.py", "notes.md"}]

\* FileAccessHandler.__init__: last_events = {}; watched holds, for the
\* claims, every event reported with its time and what was passed on
InitDebounce ==
    /\ nodes = G0.nodes
    /\ order = G0.order
    /\ adj = G0.adj
    /\ edges = G0.edges
    /\ pre = G0
    /\ max_nodes = DefaultCap
    /\ decay_factor = One
    /\ now = StartOfWatch
    /\ disk = <<>>
    /\ daemon = [last_events |-> EmptyDict, watched |-> <<>>]
    /\ steps = 0
    /\ last = Call("__init__", <<>>, FALSE, {})

\* the clock of time.time() moves on
Elapse ==
    /\ now < StartOfWatch + MaxWatch
    /\ \E seconds \in {1, 4} : now' = now + seconds
    /\ UNCHANGED <<nodes, order, adj, edges, max_nodes, decay_factor, disk, daemon,
                   steps, last, pre>>

\* on_modified(event)
OnModified(event) ==
    LET handled == on_modified(daemon.last_events, now, event)
    IN  /\ daemon' = [last_events |-> handled.last_events,
                      watched |-> Append(daemon.watched,
                                         [event |-> event, at |-> now,
                                          emitted |-> handled.emitted])]
        /\ last' = Call("on_modified", <<event>>, FALSE, {})
        /\ steps' = steps + 1
        /\ UNCHANGED <<nodes, order, adj, edges, max_nodes, decay_factor, now, disk, pre>>

CallOnModified ==
    /\ steps < MaxEvents
    /\ \E event \in WatchedEvents : OnModified(event)

NextDebounce ==
    \/ Elapse
    \/ CallOnModified

SpecDebounce == InitDebounce /\ [][NextDebounce]_vars

----------------------------------------------------------------------------
(* The recent-continuation source over the activity log *)

\* the records of the log: focus on an application, access to a file, both
\* in one record, and a record older than an hour
RecentRows ==
    {[age |-> 0, hour |-> 10, weekday |-> 0, app_name |-> "vscode",
      window_title |-> "main.py - vscode", file_path |-> None],
     [age |-> 0, hour |-> 10, weekday |-> 0, app_name |-> "firefox",
      window_title |-> "docs", file_path |-> None],
     [age |-> 0, hour |-> 10, weekday |-> 0, app_name |-> None,
      window_title |-> None, file_path |-> "main.py"],
     [age |-> 1, hour |-> 9, weekday |-> 0, app_name |-> "vscode",
      window_title |-> "notes.md - vscode", file_path |-> "notes.md"],
     [age |-> 2, hour |-> 8, weekday |-> 0, app_name |-> "firefox",
      window_title |-> "docs", file_path |-> None]}

\* the most records of the short logs
MaxRecent == 3

\* an hour of steady work: twenty records of one application, newest first,
\* after one record of another, all within the hour
LongHistory ==
    [i \in 1 .. 21 |->
        [age |-> 0, hour |-> 10, weekday |-> 0,
         app_name |-> IF i <= 20 THEN "vscode" ELSE "firefox",
         window_title |-> "main.py", file_path |-> None]]

\* the logs the source is asked over, newest first
RecentDatabases ==
    {[raises |-> TRUE, rows |-> <<>>], [raises |-> FALSE, rows |-> LongHistory]}
    \cup {[raises |-> FALSE, rows |-> rows] :
            rows \in {r \in UNION {[1 .. n -> RecentRows] : n \in 0 .. MaxRecent} :
                        \A i, j \in DOMAIN r : i < j => r[i].age <= r[j].age}}

\* n_results: predict_context passes max_results // 2
RecentResults == {1, 2, 5}

InitContinuation ==
    /\ nodes = G0.nodes
    /\ order = G0.order
    /\ adj = G0.adj
    /\ edges = G0.edges
    /\ pre = G0
    /\ max_nodes = DefaultCap
    /\ decay_factor = One
    /\ now = 0
    /\ disk = <<>>
    /\ daemon = NotStarted
    /\ steps = 0
    /\ \E db \in RecentDatabases, n_results \in RecentResults :
          last = Call("ask_recent", <<db, n_results>>, FALSE, {})

PredictFromRecentContext(db, n_results) ==
    LET outcome == predict_from_recent_context(db, n_results)
    IN  Returns(TheGraph,
                [op |-> "_predict_from_recent_context", args |-> <<db, n_results>>,
                 at |-> now, raised |-> outcome.raised, pruned |-> {},
                 result |-> outcome.predictions])

CallPredictFromRecentContext ==
    /\ last.op = "ask_recent"
    /\ PredictFromRecentContext(last.args[1], last.args[2])

NextContinuation == CallPredictFromRecentContext

SpecContinuation == InitContinuation /\ [][NextContinuation]_vars

----------------------------------------------------------------------------
(* The running daemon: ContextEngine.start, the monitor threads calling      *)
(* _handle_activity, the main loop and the signal handler calling            *)
(* _periodic_save.  No lock is taken anywhere in the code, so the threads    *)
(* interleave between the calls they make on the graph; where a thread is    *)
(* is daemon.pc:                                                             *)
(*   "prune"  in add_activity_node, the node added, the capacity unchecked   *)
(*   "save"   in _periodic_save, before graph.save()                         *)
(*   "dump"   in graph.save(), the file opened and not yet written           *)
(*   "decay"  in _periodic_save, before graph.decay_edges()                  *)
(*   "remove" in decay_edges, the strengths scaled, the weak edges not yet   *)
(*            removed                                                        *)

\* the most activities the monitors deliver
MaxActivities == 10

\* self.activity_count % 10 == 0
SaveEvery == 10

\* the configuration the daemon runs under: max_nodes and decay_factor
DaemonCap == 2
DaemonDecay == <<1, 2>>

\* what the monitor threads deliver: the activity_type and the attributes
Delivered(t) ==
    IF t = "focus"
    THEN <<"window_focus_start", [app_name |-> "vscode", window_title |-> "main.py - vscode"]>>
    ELSE <<"file_access", [file_path |-> "main.py"]>>

\* ContextEngine(config): the graph is loaded from the file a former run left
InitDaemon ==
    /\ disk = <<[whole |-> TRUE, image |-> pickle_dump(ChainStore)]>>
    /\ LET G == construct(disk).graph
       IN  /\ nodes = G.nodes
           /\ order = G.order
           /\ adj = G.adj
           /\ edges = G.edges
    /\ max_nodes = DaemonCap
    /\ decay_factor = DaemonDecay
    /\ now = 4
    /\ daemon = NotStarted
    /\ steps = 0
    /\ last = Call("__init__", <<>>, FALSE, {})
    /\ pre = G0

\* a step of a thread of the daemon: the graph, the file and the engine after
Step(H, file, d) ==
    /\ nodes' = H.nodes
    /\ order' = H.order
    /\ adj' = H.adj
    /\ edges' = H.edges
    /\ disk' = file
    /\ daemon' = d
    /\ UNCHANGED <<max_nodes, decay_factor, now, steps, last, pre>>

\* the signal handler runs on the main thread: start() is suspended while
\* the handler is in stop(); nothing runs once the process has exited
Handling == daemon.pc["signal"] \notin {"idle", "exited"}
Runnable(t) ==
    /\ daemon.pc["main"] # "exited"
    /\ t = "main" => ~Handling

\* where a thread goes when its _periodic_save returns
AfterCycle(t) ==
    IF t \in Monitors THEN "idle"
    ELSE IF t = "main" /\ ~daemon.final THEN "sleep"
    ELSE "exited"

\* start(): running is set, the monitor threads are started, the main loop
\* sleeps
Start ==
    /\ daemon.pc["main"] = "idle"
    /\ Step(TheGraph, disk, [daemon EXCEPT !.running = TRUE, !.pc["main"] = "sleep"])

\* _handle_activity up to graph.add_node: the activity is recorded and
\* counted, and its node is added
HandleActivity(t) ==
    /\ daemon.pc[t] = "idle"
    /\ daemon.running
    /\ Runnable(t)
    /\ daemon.next_id <= MaxActivities
    /\ LET activity == Delivered(t)
           activity_id == "activity_" \o ToString(daemon.next_id)
       IN  Step(NxAddNode(TheGraph, activity_id,
                          ActivityAttrs(activity[1], now, activity[2])),
                disk,
                [daemon EXCEPT !.next_id = @ + 1,
                               !.activity_count = @ + 1,
                               !.pc[t] = "prune"])

\* the rest of _handle_activity: the capacity check of add_activity_node,
\* the prediction (which reads no graph: the activity has no activity_id),
\* and the test of the count
FinishActivity(t) ==
    /\ daemon.pc[t] = "prune"
    /\ Runnable(t)
    /\ Step(IF PruneTriggered(TheGraph, max_nodes)
            THEN PruneOldNodes(TheGraph, max_nodes) ELSE TheGraph,
            disk,
            [daemon EXCEPT !.pc[t] = IF daemon.activity_count % SaveEvery = 0
                                     THEN "save" ELSE "idle"])

\* the main loop wakes more than 300 s after the last save
MainLoop ==
    /\ daemon.pc["main"] = "sleep"
    /\ daemon.running
    /\ Runnable("main")
    /\ Step(TheGraph, disk, [daemon EXCEPT !.pc["main"] = "save"])

\* SIGINT or SIGTERM: the handler calls stop(), which clears running and
\* goes to the final _periodic_save
Signal ==
    /\ daemon.pc["signal"] = "idle"
    /\ daemon.pc["main"] \notin {"idle", "exited"}
    /\ Step(TheGraph, disk, [daemon EXCEPT !.running = FALSE, !.pc["signal"] = "save"])

\* sys.exit(0) in the handler raises SystemExit in start(), wherever it was,
\* and its finally clause calls stop() again
MainFinally ==
    /\ daemon.pc["signal"] = "exited"
    /\ daemon.pc["main"] # "exited"
    /\ ~daemon.final
    /\ Step(TheGraph, disk, [daemon EXCEPT !.final = TRUE, !.pc["main"] = "save"])

\* graph.save() up to open(): the file is truncated, or mkdir or open raise
\* and _periodic_save logs the error and returns
OpenFile(t) ==
    /\ daemon.pc[t] = "save"
    /\ Runnable(t)
    /\ \E opened \in BOOLEAN :
          IF opened
          THEN Step(TheGraph, save(TheGraph, disk, "truncated").disk,
                    [daemon EXCEPT !.pc[t] = "dump"])
          ELSE Step(TheGraph, disk, [daemon EXCEPT !.pc[t] = AfterCycle(t)])

\* pickle.dump writes the graph as it is now
DumpGraph(t) ==
    /\ daemon.pc[t] = "dump"
    /\ Runnable(t)
    /\ Step(TheGraph, save(TheGraph, disk, "written").disk,
            [daemon EXCEPT !.pc[t] = "decay"])

\* the thread is in stop(): the handler's call, or the call of start()'s
\* finally clause
InStop(t) == t = "signal" \/ (t = "main" /\ daemon.final)

\* the first loop of decay_edges; shutdown_decays counts the decays that the
\* calls of stop() apply
ScaleEdges(t) ==
    /\ daemon.pc[t] = "decay"
    /\ Runnable(t)
    /\ Step([TheGraph EXCEPT !.edges = DecayedEdges(@, EffectiveRate(Zero, decay_factor))],
            disk,
            [daemon EXCEPT !.pc[t] = "remove",
                           !.shutdown_decays = IF InStop(t) THEN @ + 1 ELSE @])

\* the removal of the weak edges, and the return of _periodic_save
RemoveWeakEdges(t) ==
    /\ daemon.pc[t] = "remove"
    /\ Runnable(t)
    /\ Step(NxRemoveEdges(TheGraph, WeakEdges(edges)), disk,
            [daemon EXCEPT !.pc[t] = AfterCycle(t)])

MonitorHandles == \E t \in Monitors : HandleActivity(t)
MonitorFinishes == \E t \in Monitors : FinishActivity(t)
CycleOpens == \E t \in Threads : OpenFile(t)
CycleDumps == \E t \in Threads : DumpGraph(t)
CycleScales == \E t \in Threads : ScaleEdges(t)
CycleRemoves == \E t \in Threads : RemoveWeakEdges(t)

NextDaemon ==
    \/ Start
    \/ MonitorHandles
    \/ MonitorFinishes
    \/ MainLoop
    \/ Signal
    \/ MainFinally
    \/ CycleOpens
    \/ CycleDumps
    \/ CycleScales
    \/ CycleRemoves

SpecDaemon == InitDaemon /\ [][NextDaemon]_vars

\* the daemon with file tracking off (track_file_access false, or watchdog
\* not installed): the window-focus thread is the only monitor.  The threads
\* are scheduled fairly: a thread that can take its next step takes it.  The
\* signal and the arrival of activities are the environment's: no fairness.
FocusHandles == HandleActivity("focus")
FocusFinishes == FinishActivity("focus")

NextFocusDaemon ==
    \/ Start
    \/ FocusHandles
    \/ FocusFinishes
    \/ MainLoop
    \/ Signal
    \/ MainFinally
    \/ CycleOpens
    \/ CycleDumps
    \/ CycleScales
    \/ CycleRemoves

FairThreads ==
    /\ WF_vars(Start)
    /\ WF_vars(FocusFinishes)
    /\ WF_vars(MainLoop)
    /\ WF_vars(MainFinally)
    /\ WF_vars(CycleOpens)
    /\ WF_vars(CycleDumps)
    /\ WF_vars(CycleScales)
    /\ WF_vars(CycleRemoves)

SpecDaemonFair == InitDaemon /\ [][NextFocusDaemon]_vars /\ FairThreads

\* the structure the four variables keep
GraphShape ==
    /\ DOMAIN nodes = Range(order)
    /\ Len(order) = Cardinality(DOMAIN nodes)
    /\ DOMAIN adj = DOMAIN nodes
    /\ DOMAIN edges = UNION {{<<u, v>> : v \in Range(adj[u])} : u \in DOMAIN adj}
    /\ \A u \in DOMAIN adj : Len(adj[u]) = Cardinality(Range(adj[u]))

----------------------------------------------------------------------------
(* Claims about the graph store *)

\* the attributes the last add_activity_node call supplied
LastActivityAttrs == ActivityAttrs(last.args[2], last.args[3], last.args[4])

\* the last call was add_activity_node on an id that add_activity_node had
\* inserted before (its node_type is still 'activity'), with other attributes
SecondInsert ==
    /\ last.op = "add_activity_node"
    /\ last.args[1] \in DOMAIN pre.nodes
    /\ DictGet(pre.nodes[last.args[1]], "node_type", "none") = "activity"
    /\ \E k \in DOMAIN LastActivityAttrs :
          \/ k \notin DOMAIN pre.nodes[last.args[1]]
          \/ LastActivityAttrs[k] # pre.nodes[last.args[1]][k]

\* C1 as stated: a second add_activity_node of an id leaves the node count
\* unchanged and exactly one node of that id, carrying exactly the attributes
\* and the timestamp of the second call.
C1_ExactlySecondCallAttrs ==
    SecondInsert =>
        /\ NumberOfNodes(TheGraph) = NumberOfNodes(pre)
        /\ last.args[1] \in DOMAIN nodes
        /\ nodes[last.args[1]] = LastActivityAttrs

\* C1 amended: a second add_activity_node of an id adds no node: the nodes are
\* those before the call less the ones its prune removed, and there is no
\* prune (so the count is unchanged) when the graph held at most max_nodes
\* nodes; the node, unless pruned, has the second call's value for every
\* attribute that call supplies (type, timestamp, extras) and keeps every
\* attribute only earlier calls supplied.
C1_UpsertMergesAttrs ==
    SecondInsert =>
        /\ DOMAIN nodes = (DOMAIN pre.nodes) \ last.pruned
        /\ Len(order) = Cardinality(DOMAIN nodes)
        /\ (NumberOfNodes(pre) <= max_nodes =>
               NumberOfNodes(TheGraph) = NumberOfNodes(pre))
        /\ (last.args[1] \in DOMAIN nodes =>
               /\ \A k \in DOMAIN LastActivityAttrs :
                     nodes[last.args[1]][k] = LastActivityAttrs[k]
               /\ \A k \in (DOMAIN pre.nodes[last.args[1]]) \ DOMAIN LastActivityAttrs :
                     /\ k \in DOMAIN nodes[last.args[1]]
                     /\ nodes[last.args[1]][k] = pre.nodes[last.args[1]][k]
               /\ DOMAIN nodes[last.args[1]] =
                     (DOMAIN pre.nodes[last.args[1]]) \cup DOMAIN LastActivityAttrs)

\* C1 witness: a second insert that changed the type and the timestamp and
\* supplied no app_name, on a node that had one
C1_Witness ==
    /\ SecondInsert
    /\ last.pruned = {}
    /\ last.args[4] = EmptyDict
    /\ "app_name" \in DOMAIN pre.nodes[last.args[1]]
    /\ pre.nodes[last.args[1]]["activity_type"] # last.args[2]
    /\ pre.nodes[last.args[1]]["timestamp"] # last.args[3]
    /\ nodes[last.args[1]]["timestamp"] = last.args[3]

\* C2: add_temporal_edge with an endpoint that is not a node is rejected with
\* an error and leaves the node set and the edge set unchanged.
C2_MissingEndpointRejected ==
    (/\ last.op = "add_temporal_edge"
     /\ \/ last.args[1] \notin DOMAIN pre.nodes
        \/ last.args[2] \notin DOMAIN pre.nodes)
    => /\ last.raised
       /\ DOMAIN nodes = DOMAIN pre.nodes
       /\ DOMAIN edges = DOMAIN pre.edges

\* the edge request the last call made of add_temporal_edge:
\* <<from, to, relationship, strength, attributes>>
LastEdgeRequest ==
    CASE last.op = "add_temporal_edge" -> last.args
      [] last.op = "connect_sequential_activities" ->
            <<last.args[1], last.args[2], "followed_by",
              Rat(3600, 3600 + last.args[3]), [time_delta |-> last.args[3]]>>
      [] last.op = "link_activity_to_context" ->
            <<last.args[1], last.args[2], "belongs_to", last.args[3], EmptyDict>>

\* the last call asked add_temporal_edge for an edge
EdgeCall ==
    /\ last.op \in {"add_temporal_edge", "connect_sequential_activities",
                    "link_activity_to_context"}
    /\ ~last.raised

\* the last call re-added an edge the graph already had
EdgeUpsert ==
    /\ EdgeCall
    /\ <<LastEdgeRequest[1], LastEdgeRequest[2]>> \in DOMAIN pre.edges

\* C3: re-adding an edge of an existing (from, to) pair, with any label and
\* any positive strength, creates no second edge: the edge set is unchanged,
\* the strength becomes min(1.0, old + incoming), which is at most 1.0, and
\* last_updated and the supplied attributes are refreshed.
C3_EdgeUpsertAccumulates ==
    (EdgeUpsert /\ RLess(Zero, LastEdgeRequest[4])) =>
        LET e == <<LastEdgeRequest[1], LastEdgeRequest[2]>>
            sum == RAdd(pre.edges[e]["strength"], LastEdgeRequest[4])
        IN  /\ DOMAIN edges = DOMAIN pre.edges
            /\ adj = pre.adj
            /\ Len(SelectSeq(adj[e[1]], LAMBDA v : v = e[2])) = 1
            /\ edges[e]["strength"] = IF RLess(sum, One) THEN sum ELSE One
            /\ RLeq(edges[e]["strength"], One)
            /\ edges[e]["last_updated"] = last.at
            /\ \A k \in DOMAIN LastEdgeRequest[5] :
                  k \in DOMAIN edges[e] /\ edges[e][k] = LastEdgeRequest[5][k]
            /\ \A f \in (DOMAIN edges) \ {e} : edges[f] = pre.edges[f]

\* C3 witness: an upsert whose sum exceeded 1.0 and was capped, at a later
\* instant than the edge's previous update, with a new attribute
C3_Witness ==
    /\ EdgeUpsert
    /\ RLess(Zero, LastEdgeRequest[4])
    /\ LET e == <<LastEdgeRequest[1], LastEdgeRequest[2]>>
       IN  /\ RLess(One, RAdd(pre.edges[e]["strength"], LastEdgeRequest[4]))
           /\ RLess(pre.edges[e]["strength"], One)
           /\ edges[e]["strength"] = One
           /\ pre.edges[e]["last_updated"] < edges[e]["last_updated"]
           /\ pre.edges[e]["relationship"] # LastEdgeRequest[3]
           /\ \E k \in DOMAIN LastEdgeRequest[5] : k \notin DOMAIN pre.edges[e]

\* C4: in every reachable state every edge's strength lies in [0.0, 1.0],
\* also at the moment the edge is created.
C4_StrengthInUnitInterval ==
    \A e \in DOMAIN edges :
        RLeq(Zero, edges[e]["strength"]) /\ RLeq(edges[e]["strength"], One)

\* C6: when add_activity_node, add_context_node or add_temporal_edge returns,
\* the graph holds at most max_nodes nodes.
C6_NodeCountBounded ==
    last.op \in {"add_activity_node", "add_context_node", "add_temporal_edge"}
        => NumberOfNodes(TheGraph) <= max_nodes

\* C7: both endpoints of every edge are nodes of the graph, and after a prune
\* no edge has a removed node as its source or target.
C7_EdgesReferenceNodes ==
    /\ \A e \in DOMAIN edges : e[1] \in DOMAIN nodes /\ e[2] \in DOMAIN nodes
    /\ \A u \in DOMAIN adj : Range(adj[u]) \subseteq DOMAIN nodes
    /\ \A e \in DOMAIN edges : e[1] \notin last.pruned /\ e[2] \notin last.pruned

\* C7 witness: a prune removed a node that was the target of an edge whose
\* source survives, and the edge is gone
C7_Witness ==
    /\ last.pruned # {}
    /\ \E e \in DOMAIN pre.edges :
          /\ e[2] \in last.pruned
          /\ e[1] \in DOMAIN nodes
          /\ e \notin DOMAIN edges

\* the rate the last decay_edges call applied: the rate passed, or the
\* configured factor when it was omitted (or 0)
LastDecayRate == IF last.args[1] = Zero THEN decay_factor ELSE last.args[1]

\* C9: after decay_edges(r) with r in (0, 1), an edge of strength s has
\* strength exactly s*r when s*r >= 0.1 and is removed when s*r < 0.1; no
\* edge weaker than 0.1 remains after decay_edges.
C9_DecayScalesOrRemoves ==
    last.op = "decay_edges" =>
        /\ \A e \in DOMAIN edges : ~RLess(edges[e]["strength"], <<1, 10>>)
        /\ (RLess(Zero, LastDecayRate) /\ RLess(LastDecayRate, One)) =>
              /\ DOMAIN edges \subseteq DOMAIN pre.edges
              /\ adj = [u \in DOMAIN pre.adj |->
                           SelectSeq(pre.adj[u], LAMBDA v : <<u, v>> \in DOMAIN edges)]
              /\ nodes = pre.nodes
              /\ \A e \in DOMAIN pre.edges :
                    LET p == RMul(pre.edges[e]["strength"], LastDecayRate)
                    IN  IF RLess(p, <<1, 10>>)
                        THEN e \notin DOMAIN edges
                        ELSE /\ e \in DOMAIN edges
                             /\ edges[e]["strength"] = p
                             /\ DictWithout(edges[e], {"strength"}) =
                                   DictWithout(pre.edges[e], {"strength"})

\* C9 witness: one decay with a rate in (0, 1) removed an edge and kept
\* another with a smaller strength
C9_Witness ==
    /\ last.op = "decay_edges"
    /\ RLess(Zero, LastDecayRate) /\ RLess(LastDecayRate, One)
    /\ \E e \in DOMAIN pre.edges : e \notin DOMAIN edges
    /\ \E e \in DOMAIN edges : RLess(edges[e]["strength"], pre.edges[e]["strength"])

\* the last call reinforced the edge e
Reinforced(e) == EdgeCall /\ <<LastEdgeRequest[1], LastEdgeRequest[2]>> = e

\* C10 as stated: whatever the decay factor and the rate passed, a call other
\* than an edge request for (u, v) never increases the strength of (u, v).
C10_NeverIncreasesAnyRate ==
    \A e \in (DOMAIN pre.edges) \cap (DOMAIN edges) :
        ~Reinforced(e) => RLeq(edges[e]["strength"], pre.edges[e]["strength"])

\* C10 amended: a call other than an edge request for (u, v) never increases
\* the strength of (u, v), provided every decay is applied with a rate in
\* (0, 1) (the rate passed, or the configured factor when none is passed).
C10_NeverIncreasesProperRate ==
    (last.op = "decay_edges" =>
        RLess(Zero, LastDecayRate) /\ RLess(LastDecayRate, One))
    => \A e \in (DOMAIN pre.edges) \cap (DOMAIN edges) :
           ~Reinforced(e) => RLeq(edges[e]["strength"], pre.edges[e]["strength"])

\* C10 witness: a decay with a rate in (0, 1) left an edge strictly weaker,
\* in a graph where an earlier call had created the edge
C10_Witness ==
    /\ last.op = "decay_edges"
    /\ RLess(Zero, LastDecayRate) /\ RLess(LastDecayRate, One)
    /\ \E e \in (DOMAIN pre.edges) \cap (DOMAIN edges) :
          RLess(edges[e]["strength"], pre.edges[e]["strength"])

\* the last call was an add_activity_node that ran _prune_old_nodes: the node
\* count after its add_node exceeded max_nodes
PruneRan ==
    /\ last.op = "add_activity_node"
    /\ Cardinality((DOMAIN pre.nodes) \cup {last.args[1]}) > max_nodes

\* the timestamped nodes of the graph when that prune ran
TimestampedAtPrune ==
    {n \in DOMAIN pre.nodes : HasTime(pre.nodes[n])} \cup {last.args[1]}

\* the time of node n when that prune ran
TimeAtPrune(n) == IF n = last.args[1] THEN last.args[3] ELSE TimeOf(pre.nodes[n])

\* C5: in a store filled only by add_activity_node with distinct timestamps,
\* the node count is at most max_nodes after every call, and every node a
\* prune removed is no newer than every timestamped node that survived it.
C5_InsertOnlyBounded ==
    /\ NumberOfNodes(TheGraph) <= max_nodes
    /\ PruneRan =>
          /\ last.pruned # {}
          /\ DOMAIN nodes = ((DOMAIN pre.nodes) \cup {last.args[1]}) \ last.pruned
          /\ \A x \in last.pruned : \A y \in DOMAIN nodes :
                TimeAtPrune(x) < TimeOf(nodes[y])

\* C5 witness: max_nodes + 2 nodes have been inserted, the last insertion
\* pruned a node other than the first one inserted and other than itself
C5_Witness ==
    /\ Prepopulated(max_nodes) + steps = max_nodes + 2
    /\ PruneRan
    /\ 1 \notin last.pruned
    /\ last.args[1] \notin last.pruned
    /\ NumberOfNodes(TheGraph) <= max_nodes

\* C8 as stated: a triggered prune removes exactly the oldest 10% (rounded
\* down, at least 1) of the timestamped nodes, counted over the timestamped
\* nodes in the graph, and no node without timestamp and creation time.
C8_TenthOfTimestampedNodes ==
    PruneRan =>
        /\ Cardinality(last.pruned) = Max(1, Cardinality(TimestampedAtPrune) \div 10)
        /\ last.pruned \subseteq TimestampedAtPrune
        /\ \A x \in last.pruned : \A y \in TimestampedAtPrune \ last.pruned :
              TimeAtPrune(x) <= TimeAtPrune(y)

\* C8 amended: a triggered prune removes exactly the oldest
\* max(1, floor(max_nodes / 10)) timestamped nodes (all of them if there are
\* fewer): the tenth is taken of the configured maximum, not of the number of
\* timestamped nodes; it never removes a node that has neither a timestamp
\* nor a creation time.
C8_TenthOfCapacity ==
    PruneRan =>
        /\ Cardinality(last.pruned) =
              Min(Cardinality(TimestampedAtPrune), Max(1, max_nodes \div 10))
        /\ last.pruned \subseteq TimestampedAtPrune
        /\ \A x \in last.pruned : \A y \in TimestampedAtPrune \ last.pruned :
              TimeAtPrune(x) <= TimeAtPrune(y)
        /\ DOMAIN nodes = ((DOMAIN pre.nodes) \cup {last.args[1]}) \ last.pruned
        /\ \A n \in (DOMAIN pre.nodes) \ TimestampedAtPrune : n \in DOMAIN nodes

\* C8 witness: a prune removed two nodes, neither the first inserted, while
\* a node without any time stayed
C8_Witness ==
    /\ PruneRan
    /\ Cardinality(last.pruned) = 2
    /\ 1 \notin last.pruned
    /\ \E n \in DOMAIN nodes : ~HasTime(nodes[n])

----------------------------------------------------------------------------
(* Claims about the readers of the store *)

\* the calls that read the graph
Queries == {"get_related_activities", "predict_next_activities",
            "get_context_activities", "get_stats", "predict_context"}

\* the edges the last call removed
EdgesRemoved == (DOMAIN pre.edges) \ (DOMAIN edges)

\* C11: an edge of one state is absent from the next only if the step was
\* decay_edges and the edge's decayed strength is below 0.1, or the step
\* pruned one of its endpoints; node and edge upserts, traversals,
\* predictions, save and stats remove no edge.
C11_EdgesLeaveByDecayOrPrune ==
    \A e \in EdgesRemoved :
        \/ /\ last.op = "decay_edges"
           /\ RLess(RMul(pre.edges[e]["strength"], LastDecayRate), WeakEdge)
        \/ /\ last.op = "add_activity_node"
           /\ PruneRan
           /\ \E n \in last.pruned : n \in {e[1], e[2]} /\ n \notin DOMAIN nodes

\* C11 witness: a prune took an edge away with its endpoint and left another
\* edge, strength untouched, in the graph.
C11_Witness ==
    /\ last.op = "add_activity_node"
    /\ \E e \in EdgesRemoved : e[1] \in last.pruned \/ e[2] \in last.pruned
    /\ \E e \in (DOMAIN pre.edges) \cap (DOMAIN edges) : edges[e] = pre.edges[e]

\* the nodes a directed path of at most k edges leads to from the nodes S
RECURSIVE WithinHops(_, _, _)
WithinHops(G, S, k) ==
    IF k <= 0 THEN S
    ELSE WithinHops(G, S \cup {e[2] : e \in {x \in DOMAIN G.edges : x[1] \in S}}, k - 1)

\* the ids of the items of a result list
IdsOf(result) == {result[i].activity_id : i \in DOMAIN result}

\* C12: get_related_activities(start, max_depth = d) returns no node whose
\* every directed path from start is longer than d edges; every item has
\* 1 <= depth <= d, and the result is empty for d = 0.
C12_DepthBounded ==
    last.op = "get_related_activities" =>
        /\ \A i \in DOMAIN last.result :
              /\ 1 <= last.result[i].depth
              /\ last.result[i].depth <= last.args[2]
              /\ last.result[i].activity_id \in WithinHops(TheGraph, {last.args[1]}, last.args[2])
        /\ last.args[2] = 0 => last.result = <<>>

\* C12 witness: a traversal of depth 1 returned an activity and left out an
\* activity that two edges of sufficient strength lead to.
C12_Witness ==
    /\ last.op = "get_related_activities"
    /\ last.args[2] = 1
    /\ last.result # <<>>
    /\ \E n \in IdsOf(get_related_activities(TheGraph, last.args[1], 2, last.args[3])) :
          n \notin IdsOf(last.result)

\* C13: on the graph a1 -0.8-> a2 -0.5-> a3 of activities, both edges
\* followed_by, predict_next_activities(a1, top_k = 5) returns exactly [a2]
\* with probability 0.8, and get_related_activities(a1, max_depth = 2,
\* min_strength = 0.1) returns exactly [a2 (strength 0.8, depth 1),
\* a3 (strength 0.4, depth 2)] in that order.
C13_ChainExample ==
    TheGraph = ChainStore =>
        /\ (last.op = "predict_next_activities" /\ last.args = <<"a1", 5>>) =>
              /\ Len(last.result) = 1
              /\ last.result[1].activity_id = "a2"
              /\ last.result[1].probability = <<4, 5>>
        /\ (last.op = "get_related_activities" /\ last.args = <<"a1", 2, <<1, 10>>>>) =>
              /\ Len(last.result) = 2
              /\ last.result[1].activity_id = "a2"
              /\ last.result[1].strength = <<4, 5>>
              /\ last.result[1].depth = 1
              /\ last.result[2].activity_id = "a3"
              /\ last.result[2].strength = <<2, 5>>
              /\ last.result[2].depth = 2

\* C13 witness: the traversal of the example has run on that graph and
\* returned two items.
C13_Witness ==
    /\ TheGraph = ChainStore
    /\ last.op = "get_related_activities"
    /\ last.args = <<"a1", 2, <<1, 10>>>>
    /\ Len(last.result) = 2

\* the edges of G of strength at least min_strength
StrongEdges(G, min_strength) ==
    {e \in DOMAIN G.edges : ~RLess(G.edges[e]["strength"], min_strength)}

\* the directed paths of k such edges from start, as node sequences
RECURSIVE StrongPaths(_, _, _, _)
StrongPaths(G, start, k, min_strength) ==
    IF k = 0 THEN {<<start>>}
    ELSE UNION {{Append(p, e[2]) : e \in {x \in StrongEdges(G, min_strength) :
                                             x[1] = p[Len(p)]}} :
                p \in StrongPaths(G, start, k - 1, min_strength)}

\* the product of the strengths of the edges of a path
RECURSIVE PathStrength(_, _)
PathStrength(G, p) ==
    IF Len(p) <= 1 THEN One
    ELSE RMul(PathStrength(G, SubSeq(p, 1, Len(p) - 1)),
              G.edges[<<p[Len(p) - 1], p[Len(p)]>>]["strength"])

\* C14: every item get_related_activities returns reports the product of the
\* strengths of the edges of a path from the start to it, of as many edges as
\* its depth, every edge of which has strength >= min_strength; the edges
\* below min_strength are skipped and stay in the graph.
C14_StrengthIsPathProduct ==
    last.op = "get_related_activities" =>
        /\ \A i \in DOMAIN last.result :
              \E p \in StrongPaths(TheGraph, last.args[1], last.result[i].depth, last.args[3]) :
                  /\ p[Len(p)] = last.result[i].activity_id
                  /\ PathStrength(TheGraph, p) = last.result[i].strength
        /\ edges = pre.edges

\* C14 witness: a traversal returned an item two edges away, weaker than
\* either edge, while an edge below min_strength leaves the start node and is
\* still in the graph.
C14_Witness ==
    /\ last.op = "get_related_activities"
    /\ \E i \in DOMAIN last.result :
          /\ last.result[i].depth = 2
          /\ RLess(last.result[i].strength, <<1, 2>>)
    /\ \E e \in DOMAIN edges :
          /\ e[1] = last.args[1]
          /\ e[2] # e[1]
          /\ RLess(edges[e]["strength"], last.args[3])

\* the position of v among the successors of u
PositionOf(G, u, v) == CHOOSE i \in DOMAIN G.adj[u] : G.adj[u][i] = v

\* of two different paths of equal length from one node, p is the one a
\* breadth-first traversal takes first: where they part, p follows the
\* earlier successor
TakenBefore(G, p, q) ==
    LET i == CHOOSE j \in DOMAIN p : p[j] # q[j] /\ \A k \in 1 .. (j - 1) : p[k] = q[k]
    IN  PositionOf(G, p[i - 1], p[i]) < PositionOf(G, p[i - 1], q[i])

\* the paths of k edges of strength >= min_strength from start to n
StrongPathsTo(G, start, n, k, min_strength) ==
    {p \in StrongPaths(G, start, k, min_strength) : p[Len(p)] = n}

\* C15: in get_related_activities every node is visited at most once and
\* first-seen wins: no id appears twice in the result, the start node never
\* appears, and an item's depth and strength are those of the first path by
\* which the breadth-first traversal reaches it (the shortest ones first, and
\* among those the one following the earlier successors), whatever stronger
\* path there is.
C15_FirstSeenWins ==
    last.op = "get_related_activities" =>
        /\ \A i, j \in DOMAIN last.result :
              last.result[i].activity_id = last.result[j].activity_id => i = j
        /\ \A i \in DOMAIN last.result :
              LET item == last.result[i]
                  paths == StrongPathsTo(TheGraph, last.args[1], item.activity_id,
                                         item.depth, last.args[3])
              IN  /\ item.activity_id # last.args[1]
                  /\ \A k \in 1 .. (item.depth - 1) :
                        StrongPathsTo(TheGraph, last.args[1], item.activity_id,
                                      k, last.args[3]) = {}
                  /\ \E p \in paths :
                        /\ \A q \in paths \ {p} : TakenBefore(TheGraph, p, q)
                        /\ item.strength = PathStrength(TheGraph, p)

\* C15 witness: a traversal on a graph with a cycle through the start node
\* returned an item for which the graph holds a stronger path than the one
\* reported.
C15_Witness ==
    /\ last.op = "get_related_activities"
    /\ \E e \in DOMAIN edges : e[2] = last.args[1] /\ e[1] # e[2]
    /\ \E i \in DOMAIN last.result :
          \E k \in 1 .. 3 :
              \E p \in StrongPathsTo(TheGraph, last.args[1], last.result[i].activity_id,
                                     k, last.args[3]) :
                  RLess(last.result[i].strength, PathStrength(TheGraph, p))

\* the kind of node n: 'activity', 'context', or None for a node an edge
\* request created
KindOf(G, n) == DictGet(G.nodes[n], "node_type", None)

\* C16: get_related_activities returns only nodes of kind activity, and the
\* traversal continues through the other nodes: the result holds exactly the
\* activities, other than the start, that a path of at most max_depth edges
\* of strength >= min_strength leads to, through nodes of any kind.
C16_OnlyActivitiesThroughContexts ==
    (last.op = "get_related_activities" /\ last.args[1] \in DOMAIN nodes) =>
        IdsOf(last.result) =
            {n \in (DOMAIN nodes) \ {last.args[1]} :
                /\ KindOf(TheGraph, n) = "activity"
                /\ \E k \in 1 .. last.args[2] :
                      StrongPathsTo(TheGraph, last.args[1], n, k, last.args[3]) # {}}

\* C16 witness: a traversal returned an activity that it reaches only
\* through a context node, and did not return that context node.
C16_Witness ==
    /\ last.op = "get_related_activities"
    /\ \E i \in DOMAIN last.result :
          LET paths == UNION {StrongPathsTo(TheGraph, last.args[1],
                                            last.result[i].activity_id, k, last.args[3]) :
                              k \in 1 .. last.args[2]}
          IN  /\ paths # {}
              /\ \A p \in paths :
                    /\ KindOf(TheGraph, p[2]) = "context"
                    /\ p[2] \notin IdsOf(last.result)

\* the targets of the followed_by edges that leave node n
Followers(G, n) ==
    {e[2] : e \in {x \in DOMAIN G.edges :
                      x[1] = n /\ G.edges[x]["relationship"] = "followed_by"}}

\* C17: predict_next_activities(n, top_k) returns targets of the direct
\* followed_by edges of n only, each once, with the edge's current strength
\* as probability, in non-increasing order of strength, and as many of them as
\* top_k allows, the strongest ones; for an unknown n it returns nothing.
C17_DirectFollowersRanked ==
    last.op = "predict_next_activities" =>
        IF last.args[1] \notin DOMAIN nodes THEN last.result = <<>>
        ELSE LET n == last.args[1]
                 result == last.result
             IN  /\ Len(result) = Min(last.args[2], Cardinality(Followers(TheGraph, n)))
                 /\ \A i \in DOMAIN result :
                       /\ result[i].activity_id \in Followers(TheGraph, n)
                       /\ result[i].probability = edges[<<n, result[i].activity_id>>]["strength"]
                       /\ \A j \in DOMAIN result :
                             /\ result[i].activity_id = result[j].activity_id => i = j
                             /\ i < j => RLeq(result[j].probability, result[i].probability)
                       /\ \A v \in Followers(TheGraph, n) \ IdsOf(result) :
                             RLeq(edges[<<n, v>>]["strength"], result[i].probability)

\* C17 witness: a prediction cut to one entry, for a node with two followed_by
\* successors, an edge of another relationship and a node two followed_by
\* edges away; the entry returned is not the first successor.
C17_Witness ==
    /\ last.op = "predict_next_activities"
    /\ last.args[1] \in DOMAIN nodes
    /\ last.args[2] = 1
    /\ Len(last.result) = 1
    /\ Cardinality(Followers(TheGraph, last.args[1])) = 2
    /\ last.result[1].activity_id # adj[last.args[1]][1]
    /\ \E v \in Range(adj[last.args[1]]) : v \notin Followers(TheGraph, last.args[1])
    /\ \E v \in Followers(TheGraph, last.args[1]) :
          Followers(TheGraph, v) \ Followers(TheGraph, last.args[1]) # {}

\* C18: queries never mutate the graph: get_related_activities,
\* predict_next_activities, get_context_activities, get_stats and
\* predict_context leave the nodes, the edges, their order and every node
\* and edge attribute as they were.
C18_QueriesLeaveGraph ==
    last.op \in Queries =>
        /\ nodes = pre.nodes
        /\ edges = pre.edges
        /\ order = pre.order
        /\ adj = pre.adj

\* C18 witness: predict_context has returned a candidate of the graph source
\* read from a graph with edges.
C18_Witness ==
    /\ last.op = "predict_context"
    /\ edges # EmptyDict
    /\ \E i \in DOMAIN last.result : last.result[i].type = "graph"

----------------------------------------------------------------------------
(* Claims about the fusion of candidates *)

\* the payload of a candidate as a set of (field, value) pairs
PayloadSet(pred) == Range(pred.data)

\* the sum of the confidences of the candidates of predictions at the
\* indices I
RECURSIVE SumOfConfidences(_, _)
SumOfConfidences(predictions, I) ==
    IF I = {} THEN Zero
    ELSE LET i == CHOOSE j \in I : TRUE
         IN  RAdd(predictions[i].confidence, SumOfConfidences(predictions, I \ {i}))

\* the candidates of predictions whose payload is that of pred
SamePayload(predictions, pred) ==
    {i \in DOMAIN predictions : PayloadSet(predictions[i]) = PayloadSet(pred)}

\* C19: in _rank_and_deduplicate the candidates sharing a payload merge into
\* one whose confidence is the arithmetic mean of their confidences, in
\* whatever order they arrive (0.4 and 0.8 give 0.6), and whose reason
\* contains the reason of each of them.
C19_MergedConfidenceIsMean ==
    last.op = "_rank_and_deduplicate" =>
        \A i \in DOMAIN last.result :
            LET group == SamePayload(last.args[1], last.result[i])
            IN  /\ group # {}
                /\ last.result[i].confidence =
                      RMul(SumOfConfidences(last.args[1], group),
                           <<1, Cardinality(group)>>)
                /\ \A j \in group :
                      IsSubstring(last.args[1][j].reason, last.result[i].reason)
                /\ (\E j, k \in group :
                       /\ j # k
                       /\ last.args[1][j].confidence = <<2, 5>>
                       /\ last.args[1][k].confidence = <<4, 5>>
                       /\ Cardinality(group) = 2)
                   => last.result[i].confidence = <<3, 5>>

\* C19 witness: three candidates of one payload, the middle one of another
\* confidence and another reason than the first, were merged into one.
C19_Witness ==
    /\ last.op = "_rank_and_deduplicate"
    /\ Len(last.args[1]) = 3
    /\ Len(last.result) = 1
    /\ last.args[2] = 10
    /\ last.args[1][1].confidence # last.args[1][2].confidence
    /\ last.args[1][1].confidence = last.args[1][3].confidence
    /\ last.args[1][1].reason # last.args[1][2].reason

\* C20: two candidates merge if and only if their payloads are equal as sets
\* of (field, value) pairs, whatever the order of the fields and the source
\* type: the fused list holds no two candidates of equal payload, and before
\* truncation it holds exactly one candidate for each payload of the inputs.
C20_MergeIffPayloadsEqual ==
    last.op = "_rank_and_deduplicate" =>
        /\ \A i, j \in DOMAIN last.result :
              PayloadSet(last.result[i]) = PayloadSet(last.result[j]) => i = j
        /\ LET ranked == Ranked(last.args[1])
           IN  /\ last.result = SliceTo(ranked, last.args[2])
               /\ {PayloadSet(ranked[i]) : i \in DOMAIN ranked}
                     = {PayloadSet(last.args[1][i]) : i \in DOMAIN last.args[1]}
               /\ \A i, j \in DOMAIN ranked :
                     PayloadSet(ranked[i]) = PayloadSet(ranked[j]) => i = j
        /\ last.args[2] >= Len(last.args[1]) =>
              {PayloadSet(last.result[i]) : i \in DOMAIN last.result}
                  = {PayloadSet(last.args[1][i]) : i \in DOMAIN last.args[1]}

\* C20 witness: of three candidates, two of different source types whose
\* payloads hold the same items in a different order were merged, and the
\* third, of another payload, was kept apart.
C20_Witness ==
    /\ last.op = "_rank_and_deduplicate"
    /\ Len(last.args[1]) = 3
    /\ Len(last.result) = 2
    /\ \E i, j \in DOMAIN last.args[1] :
          /\ last.args[1][i].data # last.args[1][j].data
          /\ PayloadSet(last.args[1][i]) = PayloadSet(last.args[1][j])
          /\ last.args[1][i].type # last.args[1][j].type

----------------------------------------------------------------------------
(* Claims about the confidence gate of predict_context *)

\* the confidences of a candidate list, in its order
ConfidencesOf(result) == [i \in DOMAIN result |-> result[i].confidence]

\* C21: every prediction predict_context returns has confidence >=
\* min_confidence, the returned list is in non-increasing order of confidence,
\* and no candidate among the first max_results of the fused ranking with
\* confidence >= min_confidence is omitted; with min_confidence 0.6, fused
\* confidences 0.9, 0.5, 0.7 yield exactly the 0.9 and 0.7 entries, in that
\* order.
C21_GateKeepsConfidentInOrder ==
    (last.op = "predict_context" /\ ~last.raised) =>
        LET predictions == last.args[1]
            max_results == last.args[2]
            min_confidence == last.args[3]
            ranked == Ranked(predictions)
        IN  /\ \A i \in DOMAIN last.result :
                  RLeq(min_confidence, last.result[i].confidence)
            /\ \A i, j \in DOMAIN last.result :
                  i < j => RLeq(last.result[j].confidence, last.result[i].confidence)
            /\ \A i \in DOMAIN ranked :
                  (i <= max_results /\ RLeq(min_confidence, ranked[i].confidence))
                      => \E j \in DOMAIN last.result : last.result[j] = ranked[i]
            /\ (/\ predictions \in ThresholdLists
                /\ Cardinality(Range(predictions)) = 3
                /\ max_results = 10
                /\ min_confidence = <<3, 5>>)
                   => ConfidencesOf(last.result) = <<<<9, 10>>, <<7, 10>>>>

\* C21 witness: the candidates at 0.9, 0.5 and 0.7, arriving in that order,
\* were gated at 0.6 with max_results 10.
C21_Witness ==
    /\ last.op = "predict_context"
    /\ ~last.raised
    /\ ConfidencesOf(last.args[1]) = <<<<9, 10>>, <<1, 2>>, <<7, 10>>>>
    /\ last.args[2] = 10
    /\ last.args[3] = <<3, 5>>
    /\ Len(last.result) = 2

\* C22: predict_context truncates before it thresholds: its result is the
\* first max_results entries of the merged and sorted list less those below
\* min_confidence, which, the list being sorted, is a prefix of it; so the
\* result never has more than max_results entries and may have fewer, or none.
C22_TruncatedThenGated ==
    (last.op = "predict_context" /\ ~last.raised) =>
        LET max_results == last.args[2]
            min_confidence == last.args[3]
            ranked == Ranked(last.args[1])
            kept == {i \in DOMAIN ranked :
                        /\ i <= max_results
                        /\ RLeq(min_confidence, ranked[i].confidence)}
        IN  /\ Len(last.result) <= max_results
            /\ Len(last.result) = Cardinality(kept)
            /\ kept = 1 .. Cardinality(kept)
            /\ \A i \in kept : last.result[i] = ranked[i]

\* C22 witness: the merged list held more than max_results candidates, all
\* of them below min_confidence, and nothing was returned.
C22_Witness ==
    /\ last.op = "predict_context"
    /\ ~last.raised
    /\ Len(Ranked(last.args[1])) > last.args[2]
    /\ last.result = <<>>

----------------------------------------------------------------------------
(* Claims about the predictor and its collaborators *)

\* the collaborators as they are when the one that raises holds nothing
Quiet(c) == [c EXCEPT !.raises = FALSE]

\* C23: if the semantic search or the activity history raises during
\* predict_context, only the affected source contributes no candidate:
\* predict_context returns the fused, ranked result of the remaining sources.
C23_SourceFailureIsContained ==
    (last.op = "predict_context" /\ (last.args[1].raises \/ last.args[2].raises)) =>
        /\ ~last.raised
        /\ last.result =
              predict_context_outcome(TheGraph, Quiet(last.args[1]), Quiet(last.args[2]),
                                      Clock, last.args[3], last.args[4],
                                      last.args[5]).result

\* C24: predict_context for an activity with no activity_id, when the
\* history holds no record of the last week and the search finds nothing,
\* returns the empty list and raises nothing.
C24_EmptyInputsGiveEmptyList ==
    (/\ last.op = "predict_context"
     /\ "activity_id" \notin DOMAIN last.args[3]
     /\ ~last.args[1].raises
     /\ search_similar(last.args[1], last.query_text, last.args[4], <<1, 2>>).results = <<>>
     /\ ~last.args[2].raises
     /\ get_recent_activities(last.args[2], 1000, 24 * 7).rows = <<>>)
        => (~last.raised /\ last.result = <<>>)

\* C24 witness: an activity with a description and no activity_id was asked
\* about, with an empty history and a search that found nothing.
C24_Witness ==
    /\ last.op = "predict_context"
    /\ "activity_id" \notin DOMAIN last.args[3]
    /\ last.query_text # <<"Current activity">>
    /\ last.args[1] = [raises |-> FALSE, hits |-> <<>>]
    /\ last.args[2] = [raises |-> FALSE, rows |-> <<>>]
    /\ ~last.raised
    /\ last.result = <<>>

\* C25: an empty or blank query fails explicitly: get_related_activities and
\* predict_next_activities called with an empty or blank node id return an
\* error result, not an empty list.
C25_BlankQueryFails ==
    (/\ last.op \in {"get_related_activities", "predict_next_activities"}
     /\ Blank(<<last.args[1]>>) \/ last.args[1] = "")
        => last.raised

----------------------------------------------------------------------------
(* Claims about persistence and the maintenance cycle *)

\* C26: persistence round trip: save() followed by load(), in the same store
\* or in a new store constructed on the same path, yields a graph with the
\* same node set, edge set and node and edge attributes, the strengths
\* included.
C26_SaveLoadRoundTrip ==
    (/\ last.op \in {"load", "__init__"}
     /\ last.after = [op |-> "save", raised |-> FALSE])
        => /\ ~last.raised
           /\ DOMAIN nodes = DOMAIN pre.nodes
           /\ DOMAIN edges = DOMAIN pre.edges
           /\ \A n \in DOMAIN nodes : nodes[n] = pre.nodes[n]
           /\ \A e \in DOMAIN edges : edges[e] = pre.edges[e]

\* C26 witness: a new store was constructed on the file a save had just
\* written from a graph with a decayed edge.
C26_Witness ==
    /\ last.op = "__init__"
    /\ last.after = [op |-> "save", raised |-> FALSE]
    /\ \E e \in DOMAIN edges : edges[e].strength = <<2, 5>>
    /\ DOMAIN nodes # {}

\* C27: if graph.save() fails during a maintenance cycle, the graph in
\* memory is left exactly as it was before the save attempt, and the failure
\* is propagated to the caller of the maintenance cycle, not swallowed.
C27_SaveFailurePropagates ==
    (last.op = "_periodic_save" /\ last.save_raised) =>
        /\ TheGraph = pre
        /\ last.raised

\* C28: one maintenance cycle decays, prunes when the graph is over
\* capacity, then persists, so that when a cycle completes the snapshot on
\* disk equals the graph in memory at the end of that cycle.
C28_SnapshotIsEndOfCycle ==
    (last.op = "_periodic_save" /\ ~last.logged) =>
        /\ disk # <<>>
        /\ disk[1].whole
        /\ pickle_load(disk[1].image) = TheGraph

----------------------------------------------------------------------------
(* Claims about the threads of the daemon *)

\* the threads inside _periodic_save
InCycle == {t \in Threads : daemon.pc[t] \in {"save", "dump", "decay", "remove"}}

\* the threads inside a call on the graph: add_activity_node, save,
\* decay_edges
InGraph == {t \in Threads : daemon.pc[t] \in {"prune", "dump", "remove"}}

\* C29: the maintenance cycle never runs concurrently with itself: there is
\* no reachable state in which two invocations of _periodic_save are in
\* progress at the same time.
C29_MaintenanceNeverOverlaps == Cardinality(InCycle) <= 1

\* C30: the mutations of the graph are serialized against each other and
\* against the reads in flight: no add_activity_node, prune or decay_edges
\* step is taken while another thread is inside a mutation or a save of the
\* same graph.
C30_GraphCallsSerialized == Cardinality(InGraph) <= 1

\* a thread is inside decay_edges
Decaying == \E t \in Threads : daemon.pc[t] = "remove"

\* C31: while the engine is running, a maintenance cycle that applies decay
\* to the graph runs again and again: under fair scheduling of the threads
\* there is no run, the runs in which save keeps failing included, in which
\* the engine stays running and decay is skipped forever.
C31_DecayRecurs == []<>(~daemon.running \/ Decaying)

\* the node _handle_activity adds for the k-th recorded activity
NodeOf(k) == "activity_" \o ToString(k)

\* the activities the daemon has ingested after an earlier one, the call of
\* add_activity_node returned and both nodes still in the graph
Followers_Ingested ==
    {k \in 2 .. MaxActivities :
        /\ k < daemon.next_id
        /\ \A t \in Monitors : daemon.pc[t] # "prune"
        /\ NodeOf(k - 1) \in DOMAIN nodes
        /\ NodeOf(k) \in DOMAIN nodes}

\* C32: when the daemon has ingested an activity that follows an earlier
\* one, the graph holds a followed_by edge from the node of the previous
\* activity to the node of the new one.
C32_IngestionAddsSequentialEdge ==
    \A k \in Followers_Ingested :
        /\ <<NodeOf(k - 1), NodeOf(k)>> \in DOMAIN edges
        /\ edges[<<NodeOf(k - 1), NodeOf(k)>>].relationship = "followed_by"

\* the call of get_related_activities has returned
Returned == last.op = "get_related_activities"

\* the nodes popped so far are distinct nodes of the graph
PoppedOnce ==
    /\ Range(last.popped) \subseteq DOMAIN nodes
    /\ Len(last.popped) = Cardinality(Range(last.popped))

\* C33: get_related_activities terminates on every graph, cycles and
\* self-loops included, for every max_depth and min_strength: no node is
\* popped from the queue twice, the queue becomes empty and the call returns
\* what get_related_activities computes.
C33_TraversalTerminates ==
    /\ [](PoppedOnce)
    /\ <>(Returned)
    /\ [](Returned => last.result = get_related_activities(TheGraph, last.args[1],
                                                           last.args[2], last.args[3]))

\* the traversal returned after popping every node of a graph with a cycle
\* and a self-loop
C33_Witness ==
    /\ Returned
    /\ <<"a1", "a1">> \in DOMAIN edges
    /\ <<"a4", "a1">> \in DOMAIN edges
    /\ Len(last.popped) = NumberOfNodes(TheGraph)

\* C36: when add_activity_node(id, type, timestamp) returns, a node with
\* that id is in the graph, also when the insertion triggered a prune and
\* whatever the timestamp supplied.
C36_InsertedNodeIsPresent ==
    (last.op = "add_activity_node" /\ ~last.raised) => last.args[1] \in DOMAIN nodes

\* the candidates of a list at or above min_confidence
Confident(s, min_confidence) ==
    SelectSeq(s, LAMBDA p : RLeq(min_confidence, DictGet(p, "confidence", Zero)))

\* C35: truncation and thresholding commute on the fused list: filtering by
\* min_confidence after truncating to max_results (what predict_context
\* returns) gives the same list as truncating to max_results after filtering
\* by min_confidence.
C35_TruncationAndGateCommute ==
    (last.op = "predict_context" /\ ~last.raised) =>
        LET ranked == Ranked(last.args[1])
            max_results == last.args[2]
            min_confidence == last.args[3]
        IN  /\ Confident(SliceTo(ranked, max_results), min_confidence)
                 = SliceTo(Confident(ranked, min_confidence), max_results)
            /\ last.result = SliceTo(Confident(ranked, min_confidence), max_results)

\* the fused list was longer than max_results and held a candidate below
\* min_confidence, and a candidate was returned
C35_Witness ==
    /\ last.op = "predict_context"
    /\ ~last.raised
    /\ Len(Ranked(last.args[1])) > last.args[2]
    /\ Confident(Ranked(last.args[1]), last.args[3]) # Ranked(last.args[1])
    /\ last.result # <<>>

----------------------------------------------------------------------------
(* Claims about the recent-continuation source *)

\* the records of the log within the last hour, newest first
LastHour(db) == SelectSeq(db.rows, LAMBDA a : a.age <= 1)

\* the 20 newest of them: what the source asks the log for
NewestOfLastHour(db) == SubSeq(LastHour(db), 1, Min(20, Len(LastHour(db))))

\* the values a field takes in the records R, and how often
ValuesSeen(R, field) == {R[i][field] : i \in DOMAIN R} \ {None, ""}
TimesSeen(R, field, value) == Cardinality({i \in DOMAIN R : R[i][field] = value})

\* the candidates are the continuation of the records R: each names one
\* value of app_name or file_path seen in R, with confidence
\* min(0.9, count / |R|); no value is named twice; of each field as many
\* values are named as R has, up to n_results; none when R is empty
ContinuationOf(R, n_results, result) ==
    /\ \A i \in DOMAIN result :
          /\ result[i].type = "context_continuation"
          /\ Len(result[i].data) = 1
          /\ LET field == result[i].data[1][1]
                 value == result[i].data[1][2]
             IN  /\ field \in {"app_name", "file_path"}
                 /\ value \in ValuesSeen(R, field)
                 /\ result[i].confidence
                      = RMin(<<9, 10>>, Rat(TimesSeen(R, field, value), Len(R)))
          /\ RLeq(result[i].confidence, <<9, 10>>)
    /\ \A i, j \in DOMAIN result : result[i].data = result[j].data => i = j
    /\ \A field \in {"app_name", "file_path"} :
          Cardinality({i \in DOMAIN result : result[i].data[1][1] = field})
            = Min(n_results, Cardinality(ValuesSeen(R, field)))
    /\ R = <<>> => result = <<>>

\* _predict_from_recent_context has returned
AnsweredRecent == last.op = "_predict_from_recent_context" /\ ~last.raised

\* C34 as stated: the recent-continuation source emits one candidate per
\* distinct app name and per distinct file path seen in the last hour's
\* history (up to n_results of each), each with confidence
\* min(0.9, count / number of the last hour's records), none when the
\* history is empty.
C34_ContinuationOfLastHour ==
    AnsweredRecent => ContinuationOf(LastHour(last.args[1]), last.args[2], last.result)

\* C34, corrected: the recent-continuation source emits one candidate per
\* distinct app name and per distinct file path seen in the 20 newest records
\* of the last hour (up to n_results of each), each with confidence
\* min(0.9, count / number of those records), so none above 0.9, and none
\* when there is no such record.
C34_ContinuationOfNewestTwenty ==
    AnsweredRecent => ContinuationOf(NewestOfLastHour(last.args[1]), last.args[2], last.result)

\* the source answered over more than 20 records of the last hour, with a
\* candidate at the ceiling of 0.9
C34_Witness ==
    /\ AnsweredRecent
    /\ Len(LastHour(last.args[1])) > 20
    /\ \E i \in DOMAIN last.result : last.result[i].confidence = <<9, 10>>

\* C38: on a shutdown signal received while the main loop runs, the stop
\* sequence (stop the monitor, final save, decay) executes once: the
\* shutdown decays the graph at most once.
C38_ShutdownDecaysOnce == daemon.shutdown_decays <= 1

----------------------------------------------------------------------------
(* Claims about the privacy gate *)

\* the fields of an activity that the row of the database keeps
RowFields == {"activity_type", "app_name", "window_title", "file_path", "url"}

----------------------------------------------------------------------------
(* Claims about the activity monitor *)

\* the poll found the focused (title, app) different from the one recorded
FocusChanged ==
    /\ last.op = "_check_current_window"
    /\ ~last.args[1].raises
    /\ \/ last.args[1].window_title # last.before.current_window
       \/ last.args[1].app_name # last.before.current_app

\* C39: window-focus events are paired: a poll that finds the focused
\* (title, app) changed from a window with a non-empty title emits one
\* closing window_focus event for the previous window, with its duration,
\* and then the window_focus_start of the new window; a poll that finds it
\* unchanged emits nothing.
C39_FocusEventsPaired ==
    last.op = "_check_current_window" =>
        LET starts == [activity_type |-> "window_focus_start",
                       app_name |-> last.args[1].app_name,
                       window_title |-> last.args[1].window_title]
            closes == [activity_type |-> "window_focus",
                       app_name |-> last.before.current_app,
                       window_title |-> last.before.current_window,
                       duration |-> last.at - last.before.window_start_time[1]]
        IN  /\ ~FocusChanged => last.emitted = <<>>
            /\ (FocusChanged /\ last.before.current_window \notin {None, ""})
                  => last.emitted = <<closes, starts>>
            /\ (FocusChanged /\ last.before.current_window \in {None, ""})
                  => last.emitted = <<starts>>

\* the focus moved from a titled window that had been focused for two polls
C39_Witness ==
    /\ FocusChanged
    /\ last.before.current_window \notin {None, ""}
    /\ Len(last.emitted) = 2
    /\ last.emitted[1].duration = 2

\* the modifications of a file reported so far, and those passed on
ModifiedAt(file_path) ==
    {i \in DOMAIN daemon.watched :
        /\ ~daemon.watched[i].event.is_directory
        /\ daemon.watched[i].event.src_path = file_path}
ForwardedAt(file_path) == {i \in ModifiedAt(file_path) : daemon.watched[i].emitted # <<>>}

\* C40: for each file path, two file_access events forwarded by on_modified
\* are at least debounce_seconds apart; a modification is dropped exactly
\* when it comes less than debounce_seconds after the last forwarded one of
\* its path (so a dropped event does not restart the window); the first
\* modification of a path is forwarded.
C40_DebouncePerPath ==
    last.op \in {"__init__", "on_modified"} =>
        \A i \in DOMAIN daemon.watched :
            LET file_path == daemon.watched[i].event.src_path
                earlier == {j \in ForwardedAt(file_path) : j < i}
            IN  i \in ModifiedAt(file_path) =>
                  /\ i \in ForwardedAt(file_path) =>
                        /\ daemon.watched[i].emitted
                             = <<[activity_type |-> "file_access", file_path |-> file_path]>>
                        /\ \A j \in earlier :
                              daemon.watched[i].at - daemon.watched[j].at >= debounce_seconds
                  /\ i \notin ForwardedAt(file_path) =>
                        \E j \in earlier :
                              daemon.watched[i].at - daemon.watched[j].at < debounce_seconds
                  /\ (\A j \in ModifiedAt(file_path) : i <= j) => i \in ForwardedAt(file_path)

\* a modification forwarded, one of the same file dropped four seconds
\* later, and one forwarded a second after that
C40_Witness ==
    \E i, j, k \in DOMAIN daemon.watched :
        /\ i < j /\ j < k
        /\ {i, j, k} \subseteq ModifiedAt("main.py")
        /\ {i, k} \subseteq ForwardedAt("main.py")
        /\ j \notin ForwardedAt("main.py")
        /\ daemon.watched[j].at = daemon.watched[i].at + 4
        /\ daemon.watched[k].at = daemon.watched[i].at + 5

====
